---------------------------- MODULE VectorIndex ----------------------------
(***************************************************************************)
(* The copies of workspaces' vectors in memory that a search by meaning    *)
(* reads (crates/storage/src/vectors.rs), while Embedding writes the rows. *)
(*                                                                         *)
(* A search counts the rows of its model, takes the copy when it has that  *)
(* many vectors, and otherwise builds one page by page, one build at a     *)
(* time; no lock is held against writers.  A pass applies the vectors it   *)
(* has committed to the copy that exists at that moment.                   *)
(***************************************************************************)
EXTENDS Embedding

CONSTANTS
    Searches,
    Page,        \* BUILD_PAGE
    Budget,      \* the memory budget, in vectors
    MaxSearches  \* bound: searches begun

ASSUME IndexConstantsOK ==
    /\ Page \in Nat \ {0} /\ {Budget, MaxSearches} \subseteq Nat
    /\ IsFiniteSet(Workspaces)
    /\ 0 \notin Passages    \* a build starts before the first row

VARIABLES
    copy,       \* VectorCache::workspaces: a workspace's copy
    search,     \* what each search by meaning does
    begun       \* bound: searches begun

indexVars == <<copy, search, begun>>
allVars == <<vars, indexVars>>

\* history: a copy is `whole` when no vector of its model was committed while it was built.
Copies == [model: Models \cup {None}, ids: SUBSET Passages, whole: BOOLEAN]
NoCopy == [model |-> None, ids |-> {}, whole |-> TRUE]

Looks == [phase: {"idle", "counted", "building", "built", "found", "scanning"},
          ws: Workspaces \cup {None}, model: Models \cup {None}, total: Nat,
          after: Nat, copy: Copies]
NoSearch == [phase |-> "idle", ws |-> None, model |-> None, total |-> 0, after |-> 0, copy |-> NoCopy]

IndexTypeOK ==
    /\ copy \in [Workspaces -> Copies]
    /\ search \in [Searches -> Looks]
    /\ \A r \in Searches : (search[r].phase = "idle") = (search[r].ws = None)
    /\ begun \in 0..MaxSearches

IndexInit ==
    /\ copy = [w \in Workspaces |-> NoCopy]
    /\ search = [r \in Searches |-> NoSearch]
    /\ begun = 0

\* The rows of chunk_embeddings; they go with their passage.
Rows(w, m) == {p \in Passages : WorkspaceOf[p] = w /\ vector[p] = m}

\* is_current: the copy is of the model and has as many vectors as were counted.
IsCurrent(w, m, total) == copy[w].model = m /\ Cardinality(copy[w].ids) = total

-----------------------------------------------------------------------------
(* Writers *)

\* A commit is seen by every build of that workspace and model that has begun.
Unwhole(w, m) ==
    search' = [r \in Searches |->
        IF search[r].phase \in {"building", "built"} /\ search[r].ws = w /\ search[r].model = m
        THEN [search[r] EXCEPT !.copy.whole = FALSE] ELSE search[r]]

CommitVectors(s) ==
    /\ StoreVectors(s)
    /\ Unwhole(pass[s].ws, pass[s].model)
    /\ UNCHANGED <<copy, begun>>

\* Mutant of ApplyVectors: committed vectors are not brought into the copy.
CommitOnly(s) == Proceed(s) /\ UNCHANGED indexVars

\* VectorCache::apply, right after the commit: into a copy of the same model, if
\* there is one.  Then the pass goes on.
ApplyVectors(s) ==
    /\ Proceed(s)
    /\ copy' = IF copy[pass[s].ws].model = pass[s].model
               THEN [copy EXCEPT ![pass[s].ws].ids = @ \cup pass[s].batch]
               ELSE copy
    /\ UNCHANGED <<search, begun>>

\* clear_workspace_embeddings: the rows, then the copy.
ForgetVectors(c) ==
    /\ ClearVectors(c)
    /\ copy' = [copy EXCEPT ![caller[c].ws] = NoCopy]
    /\ UNCHANGED <<search, begun>>

\* The copies are in memory, and so are the searches.
RestartEmpty ==
    /\ Restart
    /\ copy' = [w \in Workspaces |-> NoCopy]
    /\ search' = [r \in Searches |-> NoSearch]
    /\ UNCHANGED begun

-----------------------------------------------------------------------------
(* A search: vector_index *)

\* The rows are counted.  Nothing to search, or too much for the budget: the copy
\* is forgotten and the database scanned.
CountRows(r, w, m) ==
    LET total == Cardinality(Rows(w, m))
        counted == [NoSearch EXCEPT !.ws = w, !.model = m, !.total = total]
    IN
    /\ search[r].phase = "idle"
    /\ begun < MaxSearches
    /\ begun' = begun + 1
    /\ IF total = 0 \/ (~IsCurrent(w, m, total) /\ total > Budget)
       THEN /\ copy' = [copy EXCEPT ![w] = NoCopy]
            /\ search' = [search EXCEPT ![r] = [counted EXCEPT !.phase = "scanning"]]
       ELSE /\ search' = [search EXCEPT ![r] =
                IF IsCurrent(w, m, total) THEN [counted EXCEPT !.phase = "found", !.copy = copy[w]]
                ELSE [counted EXCEPT !.phase = "counted"]]
            /\ UNCHANGED copy
    /\ UNCHANGED vars

NobodyBuilds == \A r \in Searches : search[r].phase \notin {"building", "built"}

\* With the build lock: somebody may have built the copy meanwhile, which is
\* compared with the number counted before the wait.
BeginBuild(r) ==
    LET k == search[r] IN
    /\ k.phase = "counted"
    /\ NobodyBuilds
    /\ search' = [search EXCEPT ![r] =
            IF IsCurrent(k.ws, k.model, k.total) THEN [k EXCEPT !.phase = "found", !.copy = copy[k.ws]]
            ELSE [k EXCEPT !.phase = "building", !.copy.model = k.model]]
    /\ UNCHANGED <<vars, copy, begun>>

\* The rows after the last one read, at most a page; a short page is the last.
Ahead(k) == {p \in Rows(k.ws, k.model) : p > k.after}
NextPage(k) == {p \in Ahead(k) : Cardinality({q \in Ahead(k) : q < p}) < Page}

Last(page) == CHOOSE p \in page : \A q \in page : q <= p

ReadPage(r) ==
    LET k == search[r]
        page == NextPage(k)
    IN
    /\ k.phase = "building"
    /\ search' = [search EXCEPT ![r] =
            [k EXCEPT !.copy.ids = @ \cup page,
                      !.after = IF page = {} THEN @ ELSE Last(page),
                      !.phase = IF Cardinality(page) < Page THEN "built" ELSE @]]
    /\ UNCHANGED <<vars, copy, begun>>

\* The memory that the copies of the other workspaces hold.
Held(w) == Cardinality({x \in Workspaces \X Passages : x[1] # w /\ x[2] \in copy[x[1]].ids})

\* VectorCache::store; the others make room when all would be over the budget.
StoreCopy(r) ==
    LET k == search[r]
        full == Held(k.ws) + Cardinality(k.copy.ids) > Budget
    IN
    /\ k.phase = "built"
    /\ copy' = [w \in Workspaces |-> IF w = k.ws THEN k.copy ELSE IF full THEN NoCopy ELSE copy[w]]
    /\ search' = [search EXCEPT ![r].phase = "found"]
    /\ UNCHANGED <<vars, begun>>

\* Mutant of Answer: the search is over but its record is not reset.
AnswerInPlace(r) ==
    /\ search[r].phase \in {"found", "scanning"}
    /\ search' = [search EXCEPT ![r].phase = "idle"]
    /\ UNCHANGED <<vars, copy, begun>>

\* The nearest passages that are still there are answered, or the scan's.
Answer(r) ==
    /\ search[r].phase \in {"found", "scanning"}
    /\ search' = [search EXCEPT ![r] = NoSearch]
    /\ UNCHANGED <<vars, copy, begun>>

\* A search is a request: it may be dropped at any await, the lock with it.
DropSearch(r) ==
    /\ search[r].phase \in {"counted", "building"}
    /\ search' = [search EXCEPT ![r] = NoSearch]
    /\ UNCHANGED <<vars, copy, begun>>

SearchStep(r) ==
    \/ \E w \in Workspaces, m \in Models : CountRows(r, w, m)
    \/ BeginBuild(r) \/ ReadPage(r) \/ StoreCopy(r) \/ Answer(r) \/ DropSearch(r)

IndexNext ==
    \/ Quiet /\ UNCHANGED indexVars
    \/ \E s \in Permits : CommitVectors(s) \/ ApplyVectors(s)
    \/ \E c \in Handlers : ForgetVectors(c)
    \/ RestartEmpty
    \/ \E r \in Searches : SearchStep(r)

AllInit == Init /\ IndexInit

IndexSpec == AllInit /\ [][IndexNext]_allVars

-----------------------------------------------------------------------------
(* Properties *)

\* A pass has committed vectors that it has not applied yet.
Committed(w, m) == UNION {pass[s].batch : s \in {t \in Permits :
                            pass[t].phase = "stored" /\ pass[t].ws = w /\ pass[t].model = m}}

\* A copy that was built while nothing of its model was committed, and every copy
\* later, lacks at most what a pass is about to apply: a search that takes it
\* because the numbers agree searches every vector there is.
CopiesAreComplete ==
    \A w \in Workspaces :
        LET k == copy[w] IN
        k.model # None /\ k.whole => Rows(w, k.model) \ Committed(w, k.model) \subseteq k.ids

\* "The copy is always checked against the database before it is used ... so it
\* stays current": a copy that would be used, with no pass in between, has the rows.
CopiesAreCurrent ==
    \A w \in Workspaces :
        LET k == copy[w] IN
        (/\ k.model # None /\ IsCurrent(w, k.model, Cardinality(Rows(w, k.model)))
         /\ Committed(w, k.model) = {} /\ NobodyBuilds)
        => k.ids = Rows(w, k.model)
=============================================================================
