------------------------------ MODULE JobBoard ------------------------------
(***************************************************************************)
(* The board of open jobs: the rows the JobsService lists and edits, and   *)
(* the page of the web application that fetches them once, then filters    *)
(* and pages them on its own.  The page's data are as old as its last      *)
(* fetch; its keyword reaches the filter through a timer of 300 ms.        *)
(*                                                                         *)
(* A job's texts, category and budget are its kind, and what a kind        *)
(* matches is given by constants.  A fetch is one step: what the user does *)
(* while an answer travels does not depend on the server.                  *)
(***************************************************************************)
EXTENDS Integers, FiniteSets, Sequences, SequencesExt

CONSTANTS
    MaxJobs,          \* bound: jobs created
    Kind,             \* contents a job may have
    Category, Price,  \* Kind -> category, Kind -> budget
    Keyword,
    ServerHits,       \* Keyword -> kinds with it in title or category
    ClientHits,       \* Keyword -> kinds with it in any text
    Selections,       \* settings of the two select boxes in use
    Limits,           \* values a caller gives as limit
    MaxPageSize,      \* MAX_PAGE_SIZE
    DefaultPageSize,  \* DEFAULT_PAGE_SIZE
    PageSize,         \* PAGE_SIZE of the page
    Unset             \* a filter that is not set

ASSUME JobBoardAssumption ==
    /\ {MaxJobs, MaxPageSize, DefaultPageSize, PageSize} \subseteq Nat \ {0}
    /\ DefaultPageSize <= MaxPageSize
    /\ Category \in [Kind -> STRING] /\ Price \in [Kind -> Nat]
    /\ ServerHits \in [Keyword -> SUBSET Kind]
    /\ ClientHits \in [Keyword -> SUBSET Kind]
    /\ Limits \subseteq Int
    /\ Unset \notin Keyword \cup Int

VARIABLES
    jobs,         \* rows, in the order of createdAt: status and kind
    editing,      \* the update() that has read its job, or NoEdit
    allJobs,      \* data of the query ["jobs", "open"]: id -> kind
    keyword, debouncedKeyword,
    timers,       \* keywords of the timers that are running, oldest first
    select,       \* category and budget range
    currentPage

server == <<jobs, editing>>
input == <<keyword, debouncedKeyword, timers>>
client == <<allJobs, input, select, currentPage>>
vars == <<server, client>>

NoEdit == [id |-> 0]
Open == {i \in DOMAIN jobs : jobs[i].status = "OPEN"}
NewestFirst(ids) ==
    [n \in 1 .. Cardinality(ids) |->
        CHOOSE i \in ids : Cardinality({j \in ids : j > i}) = n - 1]

Least(a, b) == IF a < b THEN a ELSE b
Most(a, b) == IF a > b THEN a ELSE b
Pages(count, size) == (count + size - 1) \div size

\* Array.slice(from, to), from 0.
Slice(s, from, to) == SubSeq(s, from + 1, Least(to, Len(s)))

-----------------------------------------------------------------------------
(* JobsService.findAll *)

Limit(limit) ==
    Least(MaxPageSize, IF limit = Unset THEN DefaultPageSize ELSE Most(1, limit))

Skip_RawLimit(page, limit) ==   \* skips what was asked for, not what is taken
    (IF page = Unset THEN 0 ELSE Most(1, page) - 1)
        * (IF limit = Unset THEN DefaultPageSize ELSE Most(1, limit))

Skip(page, limit) ==
    (IF page = Unset THEN 0 ELSE Most(1, page) - 1) * Limit(limit)

Where(status, search) ==
    {i \in DOMAIN jobs :
        /\ status # Unset => jobs[i].status = status
        /\ search # Unset => jobs[i].kind \in ServerHits[search]}

FindAll(status, search, page, limit) ==
    LET found == NewestFirst(Where(status, search))
        skip == Skip(page, limit)
    IN [data |-> Slice(found, skip, skip + Limit(limit)),
        totalPages |-> Pages(Len(found), Limit(limit))]

-----------------------------------------------------------------------------
(* JobsService.create, update, cancel; hiring and its end (see             *)
(* ContractService) change the status too.                                 *)

CreateJob(kind) ==
    /\ Len(jobs) < MaxJobs
    /\ jobs' = Append(jobs, [status |-> "OPEN", kind |-> kind])
    /\ UNCHANGED <<editing, client>>

\* The check that the job is open, then a write by id.
Update(i, kind) ==
    /\ editing = NoEdit
    /\ i \in Open /\ jobs[i].kind # kind
    /\ editing' = [id |-> i, kind |-> kind]
    /\ UNCHANGED <<jobs, client>>

UpdateCommit ==
    /\ editing # NoEdit
    /\ jobs' = [jobs EXCEPT ![editing.id].kind = editing.kind]
    /\ editing' = NoEdit
    /\ UNCHANGED client

SetJobStatus(i) ==
    /\ jobs' = [jobs EXCEPT ![i].status = IF i \in Open THEN "TAKEN" ELSE "OPEN"]
    /\ UNCHANGED <<editing, client>>

-----------------------------------------------------------------------------
(* lib/api/jobs.ts *)

\* The first page of the largest size, for 100 stands MaxPageSize.
FetchJobs == FindAll("OPEN", Unset, Unset, MaxPageSize).data

FilterJobs(list, kw, sel) ==
    {i \in DOMAIN list :
        /\ kw # Unset => list[i] \in ClientHits[kw]
        /\ sel.category # Unset => Category[list[i]] = sel.category
        /\ sel.range # Unset =>
              /\ Price[list[i]] >= sel.range.min
              /\ sel.range.max # Unset => Price[list[i]] <= sel.range.max}

-----------------------------------------------------------------------------
(* The page. *)

FilteredJobs == NewestFirst(FilterJobs(allJobs, debouncedKeyword, select))
TotalPages == Most(1, Pages(Len(FilteredJobs), PageSize))

SafePage_Unclamped == currentPage
SafePage == Least(currentPage, TotalPages)

PagedJobs(p) == Slice(FilteredJobs, (p - 1) * PageSize, p * PageSize)

\* Mounting, the window getting focus, or the data being 60 s old.
Refetch ==
    /\ allJobs' = [i \in ToSet(FetchJobs) |-> jobs[i].kind]
    /\ UNCHANGED <<server, input, select, currentPage>>

Typed_TimerKept(kw) == Append(timers, kw)   \* clears no timer
Typed_TimerKeptAlone(kw) ==   \* a throttle: starts none while one runs
    IF timers = <<>> THEN <<kw>> ELSE timers

\* The effect on keyword: the old timer is cleared, a new one started.
Typed(kw) == <<kw>>

Type(kw) ==
    /\ kw # keyword
    /\ keyword' = kw
    /\ timers' = Typed(kw)
    /\ UNCHANGED <<server, allJobs, debouncedKeyword, select, currentPage>>

TimerFires ==
    /\ timers # <<>>
    /\ debouncedKeyword' = Head(timers)
    /\ timers' = Tail(timers)
    /\ currentPage' = 1
    /\ UNCHANGED <<server, allJobs, keyword, select>>

Select(s) ==
    /\ s # select
    /\ select' = s
    /\ currentPage' = 1
    /\ UNCHANGED <<server, allJobs, input>>

\* The keyword emptied by clearFilters or by its chip, past the timer.
EmptyKeyword ==
    /\ keyword' = Unset /\ debouncedKeyword' = Unset
    /\ timers' = IF keyword = Unset THEN timers ELSE Typed(Unset)

ClearFilters ==
    /\ EmptyKeyword
    /\ select' = [category |-> Unset, range |-> Unset]
    /\ currentPage' = 1
    /\ UNCHANGED <<server, allJobs>>

RemoveKeywordChip ==
    /\ debouncedKeyword # Unset
    /\ EmptyKeyword
    /\ UNCHANGED <<server, allJobs, select, currentPage>>

\* A chip leaves the page number as it is.
RemoveSelectChip ==
    /\ \E field \in {"category", "range"} :
          /\ select[field] # Unset
          /\ select' = [select EXCEPT ![field] = Unset]
    /\ UNCHANGED <<server, allJobs, input, currentPage>>

\* Previous, next and the numbered buttons.
GoToPage(p) ==
    /\ p \in 1 .. TotalPages /\ p # SafePage
    /\ currentPage' = p
    /\ UNCHANGED <<server, allJobs, input, select>>

-----------------------------------------------------------------------------
Init ==
    /\ jobs = <<>> /\ editing = NoEdit
    /\ allJobs = [i \in {} |-> 0]
    /\ keyword = Unset /\ debouncedKeyword = Unset
    /\ timers = <<Unset>>   \* the effect runs on mount
    /\ select = [category |-> Unset, range |-> Unset]
    /\ currentPage = 1

Next ==
    \/ \E kind \in Kind : CreateJob(kind) \/ \E i \in Open : Update(i, kind)
    \/ UpdateCommit \/ \E i \in DOMAIN jobs : SetJobStatus(i)
    \/ Refetch \/ TimerFires \/ ClearFilters
    \/ RemoveKeywordChip \/ RemoveSelectChip
    \/ \E kw \in Keyword \cup {Unset} : Type(kw)
    \/ \E s \in Selections : Select(s)
    \/ \E p \in 1 .. MaxJobs + 1 : GoToPage(p)

\* A timer of the browser fires.
Spec == Init /\ [][Next]_vars /\ WF_vars(TimerFires)

-----------------------------------------------------------------------------
(* Properties. *)

\* Going through the pages shows every match, and once; and the page the
\* user is on is not empty as long as something matches, although a new
\* fetch or a filter may leave fewer pages than that one.
PagesShowEveryMatch ==
    LET Shown[p \in 0 .. TotalPages] ==
            IF p = 0 THEN <<>> ELSE Shown[p - 1] \o PagedJobs(p)
    IN /\ Shown[TotalPages] = FilteredJobs
       /\ FilteredJobs # <<>> => PagedJobs(SafePage) # <<>>

\* The pages of the server are a partition of what matches, newest first,
\* whatever number the caller gives as limit: the size of a page and what
\* is skipped are computed from the same bounded limit.
ServerPagesPartition ==
    \A search \in Keyword \cup {Unset}, limit \in Limits \cup {Unset} :
        LET Page(p) == FindAll("OPEN", search, p, limit)
            Walk[p \in 0 .. Page(1).totalPages] ==
                IF p = 0 THEN <<>> ELSE Walk[p - 1] \o Page(p).data
        IN /\ Walk[Page(1).totalPages] = NewestFirst(Where("OPEN", search))
           /\ Len(Page(Unset).data) <= MaxPageSize

\* The filter only ever becomes what the input says at that moment: no
\* timer brings back a keyword that was replaced or cleared.
FilterFollowsInput ==
    [][debouncedKeyword' # debouncedKeyword =>
           debouncedKeyword' = keyword']_vars

\* A keyword left alone is applied.
FilterSettles ==
    \A kw \in Keyword \cup {Unset} :
        keyword = kw ~> (debouncedKeyword = kw \/ keyword # kw)
=============================================================================
