------------------------- MODULE VectorIndex_proofs -------------------------
(***************************************************************************)
(* Proofs about VectorIndex: that it changes nothing of Embedding, and     *)
(* that its copies of the vectors are complete, for any workspaces,        *)
(* passages, models, passes, searches, page and budget.                    *)
(***************************************************************************)
EXTENDS VectorIndex, Embedding_proofs

-----------------------------------------------------------------------------
(* The embedding queue does not notice its searches *)

\* Every step with the copies is a step of Embedding, or none.
LEMMA IndexSteps == [IndexNext]_allVars => [Next]_vars
<1> SUFFICES ASSUME [IndexNext]_allVars PROVE [Next]_vars
  OBVIOUS
<1>1. CASE Quiet
  BY <1>1 DEF Next
<1>2. ASSUME NEW s \in Permits, CommitVectors(s) \/ ApplyVectors(s)
      PROVE  Next
  BY <1>2 DEF CommitVectors, ApplyVectors, Next
<1>3. ASSUME NEW c \in Handlers, ForgetVectors(c)
      PROVE  Next
  BY <1>3 DEF ForgetVectors, Next
<1>4. CASE RestartEmpty
  BY <1>4 DEF RestartEmpty, Next
<1>5. ASSUME NEW r \in Searches, SearchStep(r)
      PROVE  UNCHANGED vars
  BY <1>5 DEF SearchStep, CountRows, BeginBuild, ReadPage, StoreCopy, Answer, DropSearch
<1>6. CASE UNCHANGED allVars
  BY <1>6 DEF allVars
<1> QED BY <1>1, <1>2, <1>3, <1>4, <1>5, <1>6 DEF IndexNext

\* Searches, copies and their builds change nothing of what Embedding promises:
\* all that is proved of it holds of the two together.
THEOREM IndexImplements == IndexSpec => Spec
<1>1. AllInit => Init
  BY DEF AllInit
<1> QED BY <1>1, IndexSteps, PTL DEF IndexSpec, Spec

-----------------------------------------------------------------------------
(* Rows and pages *)

\* The rows of a workspace and a model are finitely many.
LEMMA RowsFinite ==
    ASSUME NEW w, NEW m
    PROVE  /\ Rows(w, m) \subseteq Passages /\ IsFiniteSet(Rows(w, m))
           /\ Cardinality(Rows(w, m)) \in Nat
<1>1. Rows(w, m) \in SUBSET Passages
  BY DEF Rows
<1>2. IsFiniteSet(Rows(w, m))
  BY <1>1, ConstantsOK, FS_Subset
<1> QED BY <1>1, <1>2, FS_CardinalityType

\* A finite set of numbers that is not empty has a largest.
LEMMA LargestExists ==
    ASSUME NEW S \in SUBSET Nat, IsFiniteSet(S), S # {}
    PROVE  \E p \in S : \A q \in S : q <= p
<1> DEFINE From(p) == {q \in S : q >= p}
           Sizes == {Cardinality(From(p)) : p \in S}
           Less == {x \in Nat \X Nat : x[1] < x[2]}
<1>1. ASSUME NEW p \in S
      PROVE  /\ IsFiniteSet(From(p)) /\ Cardinality(From(p)) \in Nat
             /\ p \in From(p) /\ From(p) \in SUBSET S
  <2>1. From(p) \in SUBSET S /\ p \in From(p)
    OBVIOUS
  <2>2. IsFiniteSet(From(p))
    BY <2>1, FS_Subset
  <2> QED BY <2>1, <2>2, FS_CardinalityType
<1>2. Sizes \in SUBSET Nat /\ Sizes # {}
  BY <1>1
<1>3. PICK n \in Sizes : \A k \in Sizes : <<k, n>> \notin Less
  <2> HIDE DEF Sizes, Less
  <2>1. IsWellFoundedOn(Less, Nat)
    BY LessIsWellFounded DEF Less
  <2> QED BY <1>2, <2>1, WFMin
<1>4. PICK p \in S : n = Cardinality(From(p))
  OBVIOUS
<1>5. ASSUME NEW q \in S, q > p
      PROVE  FALSE
  <2>1. From(q) \in SUBSET From(p) /\ p \notin From(q)
    <3>1. p \in Nat /\ q \in Nat /\ \A x \in S : x \in Nat
      OBVIOUS
    <3>2. ASSUME NEW x \in S, x >= q PROVE x >= p
      BY <1>5, <3>1, <3>2
    <3>3. ~(p >= q)
      BY <1>5, <3>1
    <3> QED BY <3>2, <3>3
  <2>2. From(q) # From(p)
    BY <2>1, <1>1
  <2>3. /\ Cardinality(From(q)) \in Nat /\ Cardinality(From(p)) \in Nat
        /\ Cardinality(From(q)) <= Cardinality(From(p))
        /\ Cardinality(From(q)) # Cardinality(From(p))
    <3> HIDE DEF From
    <3> QED BY <2>1, <2>2, <1>1, FS_Subset
  <2>4. Cardinality(From(q)) < Cardinality(From(p))
    <3> HIDE DEF From
    <3> QED BY <2>3
  <2>5. Cardinality(From(q)) \in Sizes
    OBVIOUS
  <2> HIDE DEF From, Sizes
  <2> QED BY <2>3, <2>4, <2>5, <1>3, <1>4
<1> QED BY <1>5

\* The largest row of a page.
LEMMA LastIs ==
    ASSUME NEW S \in SUBSET Passages, S # {}
    PROVE  Last(S) \in S /\ Last(S) \in Nat /\ \A q \in S : q <= Last(S)
<1>1. S \in SUBSET Nat /\ IsFiniteSet(S)
  BY ConstantsOK, FS_Subset
<1>2. \E p \in S : \A q \in S : q <= p
  BY <1>1, LargestExists
<1>3. Last(S) \in S /\ \A q \in S : q <= Last(S)
  BY <1>2, Zenon DEF Last
<1> QED BY <1>1, <1>3

\* A page is the first of the rows that are ahead: it leaves none out before its
\* last, and when it is not full it has them all.
LEMMA PageIs ==
    ASSUME NEW k \in Looks
    PROVE  /\ NextPage(k) \subseteq Rows(k.ws, k.model)
           /\ Cardinality(NextPage(k)) < Page =>
                 \A p \in Rows(k.ws, k.model) : p > k.after => p \in NextPage(k)
           /\ \A p \in Rows(k.ws, k.model), q \in NextPage(k) :
                 p > k.after /\ p <= q => p \in NextPage(k)
<1> DEFINE ahead == Ahead(k)
           Before(p) == {q \in ahead : q < p}
<1>1. /\ Page \in Nat /\ k.after \in Nat
      /\ ahead \subseteq Passages /\ ahead \in SUBSET Nat /\ IsFiniteSet(ahead)
      /\ NextPage(k) = {p \in ahead : Cardinality(Before(p)) < Page}
  <2>1. ahead \in SUBSET Rows(k.ws, k.model)
    BY DEF Ahead
  <2>2. Passages \subseteq Nat /\ IsFiniteSet(Rows(k.ws, k.model)) /\ Rows(k.ws, k.model) \subseteq Passages
    BY RowsFinite, ConstantsOK
  <2>3. IsFiniteSet(ahead)
    BY <2>1, <2>2, FS_Subset
  <2>4. Page \in Nat /\ k.after \in Nat
    BY IndexConstantsOK DEF Looks
  <2>5. ahead \subseteq Passages /\ ahead \in SUBSET Nat
    BY <2>1, <2>2, Zenon
  <2> QED BY <2>3, <2>4, <2>5 DEF NextPage
<1>2. ASSUME NEW S \in SUBSET ahead
      PROVE  IsFiniteSet(S) /\ Cardinality(S) \in Nat
  BY <1>1, <1>2, FS_Subset, FS_CardinalityType
<1>3. ASSUME NEW p \in ahead, NEW q \in NextPage(k), p <= q
      PROVE  p \in NextPage(k)
  <2>1. q \in ahead /\ Cardinality(Before(q)) < Page
    BY <1>1
  <2>2. p \in Nat /\ q \in Nat /\ ahead \in SUBSET Nat
    BY <2>1, <1>1
  <2>3. Before(p) \in SUBSET Before(q) /\ Before(q) \in SUBSET ahead
    BY <2>2, <1>3
  <2> HIDE DEF ahead, Before
  <2>4. Before(p) \in SUBSET ahead
    BY <2>3
  <2>5. Cardinality(Before(p)) <= Cardinality(Before(q))
    BY <2>3, <1>2, FS_Subset
  <2>6. Cardinality(Before(p)) \in Nat /\ Cardinality(Before(q)) \in Nat
    BY <2>3, <2>4, <1>2
  <2>7. Cardinality(Before(p)) < Page
    BY <2>1, <2>5, <2>6, <1>1
  <2> QED BY <2>7, <1>1
<1>4. ASSUME Cardinality(NextPage(k)) < Page, ahead \ NextPage(k) # {}
      PROVE  FALSE
  <2> DEFINE Less == {x \in Nat \X Nat : x[1] < x[2]}
             left == ahead \ NextPage(k)
  <2>1. left \in SUBSET Nat
    BY <1>1
  <2>2. PICK p \in left : \A q \in left : <<q, p>> \notin Less
    <3> HIDE DEF left, Less
    <3>1. IsWellFoundedOn(Less, Nat)
      BY LessIsWellFounded DEF Less
    <3> QED BY <1>4, <2>1, <3>1, WFMin DEF left
  <2>3. Before(p) \in SUBSET NextPage(k)
    <3> SUFFICES ASSUME NEW q \in ahead, q < p, q \notin NextPage(k) PROVE FALSE
      OBVIOUS
    <3>1. q \in left /\ q \in Nat /\ p \in Nat
      BY <2>1
    <3> QED BY <2>2, <3>1
  <2>4. NextPage(k) \in SUBSET ahead
    BY <1>1
  <2>5. p \in ahead /\ p \notin NextPage(k)
    BY <2>2
  <2> HIDE DEF ahead, Before, left, Less
  <2>6. IsFiniteSet(NextPage(k)) /\ Cardinality(NextPage(k)) \in Nat
    BY <2>4, <1>2
  <2>7. Cardinality(Before(p)) <= Cardinality(NextPage(k))
    BY <2>3, <2>6, FS_Subset
  <2>8. Before(p) \in SUBSET ahead
    BY <2>3, <2>4
  <2>9. Cardinality(Before(p)) < Page
    BY <2>6, <2>7, <2>8, <1>1, <1>2, <1>4
  <2> QED BY <2>5, <2>9, <1>1
<1>5. \A p \in Rows(k.ws, k.model) : p > k.after => p \in ahead
  BY DEF Ahead
<1>6. NextPage(k) \subseteq Rows(k.ws, k.model)
  BY <1>1 DEF Ahead
<1> QED BY <1>3, <1>4, <1>5, <1>6

-----------------------------------------------------------------------------
(* Types *)

\* What nothing is.
LEMMA NothingTyped ==
    /\ NoCopy \in Copies /\ NoCopy.model = None /\ NoCopy.whole = TRUE
    /\ NoSearch \in Looks /\ NoSearch.phase = "idle" /\ NoSearch.ws = None
    /\ NoSearch.after = 0 /\ NoSearch.copy = NoCopy
<1>1. NoCopy \in Copies /\ NoCopy.model = None /\ NoCopy.whole = TRUE
  BY DEF NoCopy, Copies
<1> QED BY <1>1 DEF NoSearch, Looks

\* A search in the place of another keeps the types.
LEMMA SearchTyped ==
    ASSUME IndexTypeOK, NEW r \in Searches, NEW k \in Looks, (k.phase = "idle") = (k.ws = None),
           search' = [search EXCEPT ![r] = k]
    PROVE  /\ search' \in [Searches -> Looks]
           /\ \A q \in Searches : (search'[q].phase = "idle") = (search'[q].ws = None)
BY DEF IndexTypeOK

\* The searches after a commit are as before but for `whole`.
LEMMA UnwholeIs ==
    ASSUME IndexTypeOK, NEW w, NEW m, Unwhole(w, m)
    PROVE  /\ search' \in [Searches -> Looks]
           /\ \A r \in Searches :
                LET k == search[r]
                    h == search'[r]
                IN  /\ h.phase = k.phase /\ h.ws = k.ws /\ h.model = k.model
                    /\ h.total = k.total /\ h.after = k.after
                    /\ h.copy.model = k.copy.model /\ h.copy.ids = k.copy.ids
                    /\ k.phase \in {"building", "built"} /\ k.ws = w /\ k.model = m => h.copy.whole = FALSE
<1>1. ASSUME NEW r \in Searches
      PROVE  LET k == search[r]
                 h == search'[r]
             IN  /\ h \in Looks
                 /\ h.phase = k.phase /\ h.ws = k.ws /\ h.model = k.model
                 /\ h.total = k.total /\ h.after = k.after
                 /\ h.copy.model = k.copy.model /\ h.copy.ids = k.copy.ids
                 /\ k.phase \in {"building", "built"} /\ k.ws = w /\ k.model = m => h.copy.whole = FALSE
  <2>1. search[r] \in Looks /\ search[r].copy \in Copies
    BY DEF IndexTypeOK, Looks
  <2>2. search'[r] = IF search[r].phase \in {"building", "built"} /\ search[r].ws = w /\ search[r].model = m
                     THEN [search[r] EXCEPT !.copy.whole = FALSE] ELSE search[r]
    BY DEF Unwhole
  <2>3. CASE search[r].phase \in {"building", "built"} /\ search[r].ws = w /\ search[r].model = m
    <3> DEFINE h == [search[r] EXCEPT !.copy.whole = FALSE]
    <3>1. /\ h.phase = search[r].phase /\ h.ws = search[r].ws /\ h.model = search[r].model
          /\ h.total = search[r].total /\ h.after = search[r].after
          /\ h.copy = [search[r].copy EXCEPT !.whole = FALSE]
      BY <2>1 DEF Looks
    <3>2. h.copy \in Copies /\ h.copy.model = search[r].copy.model /\ h.copy.ids = search[r].copy.ids
          /\ h.copy.whole = FALSE
      <4> HIDE DEF h
      <4> QED BY <2>1, <3>1 DEF Copies
    <3>3. h \in Looks
      BY <2>1, <3>2 DEF Looks
    <3> QED BY <2>2, <2>3, <3>1, <3>2, <3>3
  <2>4. CASE ~(search[r].phase \in {"building", "built"} /\ search[r].ws = w /\ search[r].model = m)
    BY <2>1, <2>2, <2>4
  <2> QED BY <2>3, <2>4
<1>2. search' = [r \in Searches |-> search'[r]]
  BY DEF Unwhole
<1> QED BY <1>1, <1>2

\* A build that has read a page.
ReadOn(k, page) ==
    [k EXCEPT !.copy.ids = @ \cup page,
              !.after = IF page = {} THEN @ ELSE Last(page),
              !.phase = IF Cardinality(page) < Page THEN "built" ELSE @]

\* Field by field, a search after another page.
LEMMA ReadOnIs ==
    ASSUME NEW k \in Looks, k.phase = "building", NEW page \in SUBSET Passages
    PROVE  LET h == ReadOn(k, page) IN
           /\ h \in Looks
           /\ h.ws = k.ws /\ h.model = k.model
           /\ h.copy.model = k.copy.model /\ h.copy.whole = k.copy.whole
           /\ h.copy.ids = k.copy.ids \cup page
           /\ h.after = IF page = {} THEN k.after ELSE Last(page)
           /\ h.phase = IF Cardinality(page) < Page THEN "built" ELSE "building"
<1> DEFINE h == ReadOn(k, page)
           a == IF page = {} THEN k.after ELSE Last(page)
           p == IF Cardinality(page) < Page THEN "built" ELSE "building"
<1>1. k.copy \in Copies /\ k.after \in Nat
  BY DEF Looks
<1>2. a \in Nat /\ p \in {"built", "building"}
  BY <1>1, LastIs
<1>3. /\ h.ws = k.ws /\ h.model = k.model /\ h.total = k.total
      /\ h.copy = [k.copy EXCEPT !.ids = @ \cup page]
      /\ h.after = a /\ h.phase = p
  BY DEF Looks, ReadOn
<1>4. /\ h.copy \in Copies
      /\ h.copy.model = k.copy.model /\ h.copy.whole = k.copy.whole /\ h.copy.ids = k.copy.ids \cup page
  BY <1>1, <1>3 DEF Copies
<1>5. h \in Looks
  BY <1>1, <1>2, <1>3, <1>4 DEF Looks, ReadOn
<1> QED BY <1>3, <1>4, <1>5

\* A step of a search puts another record in the place of its own.
LEMMA ReadPageIs ==
    ASSUME NEW r \in Searches, IndexTypeOK, ReadPage(r)
    PROVE  /\ search' = [search EXCEPT ![r] = ReadOn(search[r], NextPage(search[r]))]
           /\ search[r] \in Looks /\ search[r].phase = "building"
           /\ NextPage(search[r]) \in SUBSET Passages
           /\ UNCHANGED <<vars, copy, begun>>
<1>1. search[r] \in Looks /\ search[r].copy \in Copies
  BY DEF IndexTypeOK, Looks
<1>2. search' = [search EXCEPT ![r] = ReadOn(search[r], NextPage(search[r]))]
  BY DEF ReadPage, ReadOn
<1>3. NextPage(search[r]) \in SUBSET Passages
  BY <1>1, PageIs, RowsFinite
<1> QED BY <1>1, <1>2, <1>3 DEF ReadPage

BuildOf(k) == [k EXCEPT !.phase = "building", !.copy.model = k.model]

\* Field by field, a search whose build begins.
LEMMA BuildIs ==
    ASSUME NEW k \in Looks
    PROVE  LET h == BuildOf(k) IN
           /\ h \in Looks
           /\ h.phase = "building" /\ h.ws = k.ws /\ h.model = k.model /\ h.after = k.after
           /\ h.copy.model = k.model /\ h.copy.ids = k.copy.ids /\ h.copy.whole = k.copy.whole
<1> DEFINE h == BuildOf(k)
<1>1. k.copy \in Copies /\ k.model \in Models \cup {None}
  BY DEF Looks
<1>2. /\ h.phase = "building" /\ h.ws = k.ws /\ h.model = k.model /\ h.after = k.after
      /\ h.copy = [k.copy EXCEPT !.model = k.model]
  BY DEF Looks, BuildOf
<1>3. /\ h.copy \in Copies
      /\ h.copy.model = k.model /\ h.copy.ids = k.copy.ids /\ h.copy.whole = k.copy.whole
  BY <1>1, <1>2 DEF Copies
<1>4. h \in Looks
  BY <1>1, <1>3 DEF Looks, BuildOf
<1> QED BY <1>2, <1>3, <1>4

\* A search that has counted has nothing built, and may have forgotten the copy.
LEMMA CountIs ==
    ASSUME IndexTypeOK, NEW r \in Searches, NEW w \in Workspaces, NEW m \in Models, CountRows(r, w, m)
    PROVE  /\ \E h \in Looks :
                /\ search' = [search EXCEPT ![r] = h]
                /\ h.ws = w /\ h.model = m
                /\ h.phase \in {"counted", "found", "scanning"}
                /\ h.phase = "counted" => h.after = 0 /\ h.copy = NoCopy
           /\ copy' = copy \/ copy' = [copy EXCEPT ![w] = NoCopy]
           /\ begun' \in 0..MaxSearches
           /\ UNCHANGED vars
<1> DEFINE n == Cardinality(Rows(w, m))
           counted == [NoSearch EXCEPT !.ws = w, !.model = m, !.total = n]
           scanning == [counted EXCEPT !.phase = "scanning"]
           waits == [counted EXCEPT !.phase = "counted"]
           found == [counted EXCEPT !.phase = "found", !.copy = copy[w]]
           Good(h) == /\ h \in Looks
                      /\ h.ws = w /\ h.model = m
                      /\ h.phase \in {"counted", "found", "scanning"}
                      /\ h.phase = "counted" => h.after = 0 /\ h.copy = NoCopy
<1>1. n \in Nat /\ copy[w] \in Copies /\ NoCopy \in Copies
  BY RowsFinite, NothingTyped DEF IndexTypeOK
<1> HIDE DEF n
<1>2. Good(scanning)
  BY <1>1 DEF NoSearch, Looks
<1>3. Good(waits)
  BY <1>1 DEF NoSearch, Looks
<1>4. Good(found)
  BY <1>1 DEF NoSearch, Looks
<1>5. \/ search' = [search EXCEPT ![r] = scanning]
      \/ search' = [search EXCEPT ![r] = waits]
      \/ search' = [search EXCEPT ![r] = found]
  BY DEF CountRows, n
<1>6. \E h : search' = [search EXCEPT ![r] = h] /\ Good(h)
  <2> HIDE DEF scanning, waits, found, Good
  <2> QED BY <1>2, <1>3, <1>4, <1>5
<1>7. copy' = copy \/ copy' = [copy EXCEPT ![w] = NoCopy]
  BY DEF CountRows
<1>8. begun' \in 0..MaxSearches
  BY IndexConstantsOK DEF CountRows, IndexTypeOK
<1> QED BY <1>6, <1>7, <1>8 DEF CountRows

\* With the lock a search takes the copy or builds one.
LEMMA BeginIs ==
    ASSUME IndexTypeOK, NEW r \in Searches, BeginBuild(r)
    PROVE  /\ search[r].phase = "counted" /\ UNCHANGED <<vars, copy, begun>>
           /\ search[r].ws \in Workspaces /\ search[r].ws # None
           /\ \E h \in Looks :
                /\ search' = [search EXCEPT ![r] = h]
                /\ h.ws = search[r].ws
                /\ \/ h.phase = "found"
                   \/ h = BuildOf(search[r])
<1> DEFINE k == search[r]
           f == [k EXCEPT !.phase = "found", !.copy = copy[k.ws]]
<1>1. k \in Looks /\ k.phase = "counted" /\ k.ws \in Workspaces /\ k.ws # None
  BY DEF IndexTypeOK, BeginBuild, Looks
<1>2. f \in Looks /\ f.phase = "found" /\ f.ws = k.ws
  BY <1>1 DEF IndexTypeOK, Looks
<1>3. BuildOf(k) \in Looks /\ BuildOf(k).ws = k.ws
  BY <1>1, BuildIs
<1>4. search' = [search EXCEPT ![r] = f] \/ search' = [search EXCEPT ![r] = BuildOf(k)]
  BY DEF BeginBuild, BuildOf
<1> HIDE DEF f
<1>5. \E h \in Looks : /\ search' = [search EXCEPT ![r] = h] /\ h.ws = k.ws
                       /\ h.phase = "found" \/ h = BuildOf(k)
  BY <1>2, <1>3, <1>4
<1> QED BY <1>1, <1>5 DEF BeginBuild

\* Every step keeps the types of the copies and searches.
LEMMA IndexTyped ==
    ASSUME TypeOK, IndexTypeOK, [IndexNext]_allVars
    PROVE  IndexTypeOK'
<1> DEFINE SearchesOK == /\ search \in [Searches -> Looks]
                         /\ \A r \in Searches : (search[r].phase = "idle") = (search[r].ws = None)
<1>0. /\ SearchesOK /\ copy \in [Workspaces -> Copies] /\ begun \in 0..MaxSearches
      /\ None \notin Workspaces
  BY ConstantsOK DEF IndexTypeOK
<1>1. CASE UNCHANGED indexVars
  BY <1>0, <1>1 DEF IndexTypeOK, indexVars
<1>2. ASSUME NEW s \in Permits, CommitVectors(s)
      PROVE  IndexTypeOK'
  <2>1. search' \in [Searches -> Looks]
        /\ \A r \in Searches : search'[r].phase = search[r].phase /\ search'[r].ws = search[r].ws
    BY <1>2, UnwholeIs DEF CommitVectors
  <2> QED BY <2>1, <1>0, <1>2 DEF CommitVectors, IndexTypeOK
<1>3. ASSUME NEW s \in Permits, ApplyVectors(s)
      PROVE  IndexTypeOK'
  <2> DEFINE w == pass[s].ws
             k == [copy[w] EXCEPT !.ids = @ \cup pass[s].batch]
  <2>1. w \in Workspaces /\ pass[s].batch \subseteq Passages
    BY <1>3 DEF ApplyVectors, Proceed, TypeOK, Passes
  <2>2. k \in Copies
    BY <2>1, <1>0 DEF Copies
  <2>3. copy' = copy \/ copy' = [copy EXCEPT ![w] = k]
    BY <1>3 DEF ApplyVectors
  <2> HIDE DEF k
  <2>4. copy' \in [Workspaces -> Copies]
    BY <2>2, <2>3, <1>0
  <2> QED BY <2>4, <1>0, <1>3 DEF ApplyVectors, IndexTypeOK
<1>4. ASSUME NEW c \in Handlers, ForgetVectors(c)
      PROVE  IndexTypeOK'
  <2>1. copy' \in [Workspaces -> Copies]
    BY <1>0, <1>4, NothingTyped DEF ForgetVectors
  <2> QED BY <2>1, <1>0, <1>4 DEF ForgetVectors, IndexTypeOK
<1>5. CASE RestartEmpty
  BY <1>0, <1>5, NothingTyped DEF RestartEmpty, IndexTypeOK
<1>6. ASSUME NEW r \in Searches, NEW w \in Workspaces, NEW m \in Models, CountRows(r, w, m)
      PROVE  IndexTypeOK'
  <2>1. PICK h \in Looks : /\ search' = [search EXCEPT ![r] = h] /\ h.ws = w
                           /\ h.phase \in {"counted", "found", "scanning"}
    BY <1>6, CountIs
  <2>2. (h.phase = "idle") = (h.ws = None)
    BY <2>1, <1>0
  <2>3. SearchesOK'
    BY <2>1, <2>2, SearchTyped
  <2>4. (copy' = copy \/ copy' = [copy EXCEPT ![w] = NoCopy]) /\ begun' \in 0..MaxSearches
    BY <1>6, CountIs
  <2>5. copy' \in [Workspaces -> Copies]
    BY <2>4, <1>0, NothingTyped
  <2> QED BY <2>3, <2>4, <2>5 DEF IndexTypeOK
<1>7. ASSUME NEW r \in Searches, BeginBuild(r)
      PROVE  IndexTypeOK'
  <2>1. PICK h \in Looks : /\ search' = [search EXCEPT ![r] = h] /\ h.ws = search[r].ws
                           /\ h.phase = "found" \/ h = BuildOf(search[r])
    BY <1>7, BeginIs
  <2>2. h.phase # "idle" /\ h.ws # None /\ UNCHANGED <<copy, begun>>
    BY <2>1, <1>0, <1>7, BeginIs, BuildIs
  <2>3. SearchesOK'
    BY <2>1, <2>2, SearchTyped
  <2> QED BY <2>2, <2>3, <1>0 DEF IndexTypeOK
<1>8. ASSUME NEW r \in Searches, ReadPage(r)
      PROVE  IndexTypeOK'
  <2> DEFINE h == ReadOn(search[r], NextPage(search[r]))
  <2>1. search' = [search EXCEPT ![r] = h] /\ UNCHANGED <<copy, begun>>
    BY <1>8, ReadPageIs
  <2>2. search[r] \in Looks /\ search[r].phase = "building" /\ NextPage(search[r]) \in SUBSET Passages
    BY <1>8, ReadPageIs
  <2>3. h \in Looks /\ h.ws = search[r].ws /\ h.phase \in {"built", "building"}
    BY <2>2, ReadOnIs
  <2>4. search[r].ws # None
    BY <2>2, <1>0
  <2> HIDE DEF h
  <2>5. SearchesOK'
    BY <2>1, <2>3, <2>4, SearchTyped
  <2> QED BY <2>1, <2>5, <1>0 DEF IndexTypeOK
<1>9. ASSUME NEW r \in Searches, StoreCopy(r)
      PROVE  IndexTypeOK'
  <2> DEFINE h == [search[r] EXCEPT !.phase = "found"]
  <2>1. search[r] \in Looks /\ search[r].phase = "built" /\ search[r].ws # None /\ search[r].copy \in Copies
    BY <1>0, <1>9 DEF StoreCopy, Looks
  <2>2. h \in Looks /\ h.ws = search[r].ws /\ h.phase = "found"
    BY <2>1 DEF Looks
  <2>3. search' = [search EXCEPT ![r] = h]
    BY <1>9 DEF StoreCopy
  <2> HIDE DEF h
  <2>4. SearchesOK'
    BY <2>1, <2>2, <2>3, SearchTyped
  <2>5. copy' \in [Workspaces -> Copies]
    BY <2>1, <1>0, <1>9, NothingTyped DEF StoreCopy
  <2> QED BY <2>4, <2>5, <1>0, <1>9 DEF StoreCopy, IndexTypeOK
<1>10. ASSUME NEW r \in Searches, Answer(r) \/ DropSearch(r)
       PROVE  IndexTypeOK'
  <2>1. search' = [search EXCEPT ![r] = NoSearch] /\ UNCHANGED <<copy, begun>>
    BY <1>10 DEF Answer, DropSearch
  <2>2. SearchesOK'
    BY <2>1, NothingTyped, SearchTyped
  <2> QED BY <2>1, <2>2, <1>0 DEF IndexTypeOK
<1>11. CASE UNCHANGED allVars
  BY <1>1, <1>11 DEF allVars
<1> QED
  BY <1>1, <1>2, <1>3, <1>4, <1>5, <1>6, <1>7, <1>8, <1>9, <1>10, <1>11 DEF IndexNext, SearchStep

\* The first state has its types.
LEMMA IndexInitTyped == AllInit => TypeOK /\ IndexTypeOK
<1> SUFFICES ASSUME AllInit PROVE TypeOK /\ IndexTypeOK
  OBVIOUS
<1>1. TypeOK
  BY InitTyped DEF AllInit
<1>2. IndexTypeOK
  BY NothingTyped, IndexConstantsOK DEF AllInit, IndexInit, IndexTypeOK
<1> QED BY <1>1, <1>2

\* The copies and the searches that build them keep their types, and a search
\* that is over leaves nothing of itself.
THEOREM IndexTypeCorrect == IndexSpec => [](TypeOK /\ IndexTypeOK)
<1>1. TypeOK /\ IndexTypeOK /\ [IndexNext]_allVars => IndexTypeOK'
  BY IndexTyped
<1>2. AllInit => IndexTypeOK
  BY IndexInitTyped
<1>3. IndexSpec => []TypeOK
  BY IndexImplements, TypeCorrect, PTL
<1> QED BY <1>1, <1>2, <1>3, PTL DEF IndexSpec

-----------------------------------------------------------------------------
(* Completeness *)

\* A search that has counted starts from nothing.  A build that no commit came
\* into has every row up to the last one it read, and a finished one has them all.
SearchRight(k) ==
    /\ k.phase = "counted" => k.after = 0 /\ k.copy = NoCopy
    /\ k.phase \in {"counted", "building", "built"} => k.ws \in Workspaces /\ k.model \in Models
    /\ k.phase \in {"building", "built"} => k.copy.model = k.model
    /\ k.phase = "building" /\ k.copy.whole => \A p \in Rows(k.ws, k.model) : p <= k.after => p \in k.copy.ids
    /\ k.phase = "built" /\ k.copy.whole => Rows(k.ws, k.model) \subseteq k.copy.ids

SearchesRight == \A r \in Searches : SearchRight(search[r])

CompleteInv == TypeOK /\ IndexTypeOK /\ CopiesAreComplete /\ SearchesRight

\* What every copy must have.
Due(w, m) == Rows(w, m) \ Committed(w, m)

\* Both ways to say it of the copies of each model.
LEMMA CompleteIs ==
    ASSUME IndexTypeOK, CopiesAreComplete, NEW w \in Workspaces, NEW m \in Models,
           copy[w].model = m, copy[w].whole
    PROVE  Due(w, m) \subseteq copy[w].ids
BY ConstantsOK DEF CopiesAreComplete, Due

\* CopiesAreComplete of the next state, from what is due in each copy.
LEMMA CompleteNext ==
    ASSUME IndexTypeOK',
           \A w \in Workspaces, m \in Models :
                copy'[w].model = m /\ copy'[w].whole => Due(w, m)' \subseteq copy'[w].ids
    PROVE  CopiesAreComplete'
<1>1. \A w \in Workspaces : copy'[w].model # None => copy'[w].model \in Models
  BY DEF IndexTypeOK, Copies
<1> QED BY <1>1 DEF CopiesAreComplete, Due

\* Rows that go ask nothing of the copies or of the builds.
LEMMA CopiesKept ==
    ASSUME IndexTypeOK, IndexTypeOK', CopiesAreComplete, copy' = copy,
           \A w \in Workspaces, m \in Models : Due(w, m)' \subseteq Due(w, m)
    PROVE  CopiesAreComplete'
<1>1. ASSUME NEW w \in Workspaces, NEW m \in Models, copy'[w].model = m, copy'[w].whole
      PROVE  Due(w, m)' \subseteq copy'[w].ids
  <2>1. Due(w, m) \subseteq copy[w].ids
    BY <1>1, CompleteIs
  <2> QED BY <2>1
<1> QED BY <1>1, CompleteNext

\* Searches that do not move stay right while rows only go.
LEMMA SearchesKept ==
    ASSUME SearchesRight, search' = search,
           \A w \in Workspaces, m \in Models : Rows(w, m)' \subseteq Rows(w, m)
    PROVE  SearchesRight'
<1> SUFFICES ASSUME NEW r \in Searches PROVE SearchRight(search[r])'
  BY DEF SearchesRight
<1>1. SearchRight(search[r])
  BY DEF SearchesRight
<1> QED BY <1>1 DEF SearchRight

\* A step of one search concerns the others when they are right.
LEMMA OneSearch ==
    ASSUME IndexTypeOK, SearchesRight, NEW r \in Searches, NEW h \in Looks,
           search' = [search EXCEPT ![r] = h], UNCHANGED vars, SearchRight(h)
    PROVE  SearchesRight'
<1>1. \A w, m : Rows(w, m)' = Rows(w, m)
  BY DEF vars, rowVars, Rows
<1> SUFFICES ASSUME NEW q \in Searches PROVE SearchRight(search[q])'
  BY DEF SearchesRight
<1>2. SearchRight(search'[q])
  BY DEF SearchesRight, IndexTypeOK
<1> QED BY <1>1, <1>2 DEF SearchRight

\* What a step of Embedding takes no vector from, or applies none of, it keeps due.
LEMMA DueKept ==
    ASSUME \A p \in Passages : vector'[p] = vector[p] \/ vector'[p] = None,
           \A s \in Permits : pass[s].phase = "stored" =>
                /\ pass'[s].phase = "stored" /\ pass'[s].ws = pass[s].ws
                /\ pass'[s].model = pass[s].model /\ pass'[s].batch = pass[s].batch,
           NEW w \in Workspaces, NEW m \in Models
    PROVE  Rows(w, m)' \subseteq Rows(w, m) /\ Due(w, m)' \subseteq Due(w, m)
<1>1. Rows(w, m)' \subseteq Rows(w, m)
  BY ConstantsOK DEF Rows
<1>2. Committed(w, m) \subseteq Committed(w, m)'
  <2> SUFFICES ASSUME NEW s \in Permits, NEW p \in pass[s].batch,
                      pass[s].phase = "stored", pass[s].ws = w, pass[s].model = m
               PROVE  p \in Committed(w, m)'
    BY DEF Committed
  <2> QED BY DEF Committed
<1> QED BY <1>1, <1>2 DEF Due

\* The steps without copies make no rows and end no pass that has committed.
LEMMA QuietMakesNone ==
    ASSUME TypeOK, Quiet
    PROVE  /\ \A p \in Passages : vector'[p] = vector[p] \/ vector'[p] = None
           /\ \A s \in Permits : pass[s].phase = "stored" =>
                /\ pass'[s].phase = "stored" /\ pass'[s].ws = pass[s].ws
                /\ pass'[s].model = pass[s].model /\ pass'[s].batch = pass[s].batch
<1> DEFINE Goal == /\ \A p \in Passages : vector'[p] = vector[p] \/ vector'[p] = None
                   /\ \A s \in Permits : pass[s].phase = "stored" =>
                        /\ pass'[s].phase = "stored" /\ pass'[s].ws = pass[s].ws
                        /\ pass'[s].model = pass[s].model /\ pass'[s].batch = pass[s].batch
<1>0. pass \in [Permits -> Passes]
  BY DEF TypeOK
<1>1. CASE Receive
  BY <1>1 DEF Receive, rowVars
<1>2. ASSUME NEW s \in Permits,
             Spawn(s) \/ ReadProvider(s) \/ Count(s) \/ Look(s) \/ StopCancelled(s) \/ ProviderFails(s) \/ StoreFails(s)
      PROVE  Goal
  <2>1. vector' = vector /\ pass[s].phase # "stored"
    BY <1>2 DEF Spawn, ReadProvider, Count, Look, StopCancelled, ProviderFails, StoreFails, Working, rowVars
  <2>2. \A t \in Permits : t # s => pass'[t] = pass[t]
    BY <1>0, <1>2 DEF Spawn, ReadProvider, Count, Look, StopCancelled, ProviderFails, StoreFails, End
  <2> QED BY <2>1, <2>2
<1>3. ASSUME NEW s \in Permits, Cancel(s)
      PROVE  Goal
  <2>1. vector' = vector /\ pass' = [pass EXCEPT ![s] = [pass[s] EXCEPT !.cancelled = TRUE]]
    BY <1>3 DEF Cancel, rowVars
  <2>2. LET q == [pass[s] EXCEPT !.cancelled = TRUE] IN
        q.phase = pass[s].phase /\ q.ws = pass[s].ws /\ q.model = pass[s].model /\ q.batch = pass[s].batch
    BY <1>0 DEF Passes
  <2> QED BY <1>0, <2>1, <2>2
<1>4. ASSUME NEW c \in Handlers, PeopleStep(c)
      PROVE  Goal
  BY <1>4 DEF PeopleStep, SaveProvider, CheckRebuild, rowVars
<1>5. ASSUME NEW c \in Callers, Request(c) \/ LoseRequest(c)
      PROVE  Goal
  BY <1>5 DEF Request, LoseRequest, rowVars
<1>6. ASSUME NEW w \in Workspaces, Resume(w)
      PROVE  Goal
  BY <1>6 DEF Resume, rowVars
<1>7. CASE FileStep
  <2>1. ASSUME NEW w \in Workspaces, NEW old \in SUBSET Passages, DeleteFile(w, old)
        PROVE  Goal
    BY <2>1 DEF DeleteFile
  <2>2. ASSUME NEW w \in Workspaces, NEW old \in SUBSET Passages, NEW c \in Tasks, NEW new \in SUBSET Passages,
               IndexFile(c, w, old, new)
        PROVE  Goal
    BY <2>2 DEF IndexFile
  <2> QED BY <1>7, <2>1, <2>2 DEF FileStep
<1>8. CASE Midnight
  BY <1>8 DEF Midnight, rowVars
<1> HIDE DEF Goal
<1>9. Goal
  BY <1>1, <1>2, <1>3, <1>4, <1>5, <1>6, <1>7, <1>8 DEF Quiet, Goal
<1> QED BY <1>9 DEF Goal

\* A pass commits rows that it has yet to apply, and tells the builds of them.
LEMMA CommitKeeps ==
    ASSUME TypeOK, IndexTypeOK, IndexTypeOK', CopiesAreComplete, SearchesRight,
           NEW s \in Permits, CommitVectors(s)
    PROVE  CopiesAreComplete' /\ SearchesRight'
<1> DEFINE v == pass[s].ws
           n == pass[s].model
           b == pass[s].batch
           Elsewhere(w, m) == ~(w = v /\ m = n)
<1>1. /\ pass \in [Permits -> Passes] /\ pass[s].phase = "asking"
      /\ pass' = [pass EXCEPT ![s] = [pass[s] EXCEPT !.phase = "stored"]]
      /\ vector' = [p \in Passages |-> IF p \in b THEN n ELSE vector[p]]
      /\ \A p \in b : WorkspaceOf[p] = v
      /\ copy' = copy
  BY DEF TypeOK, CommitVectors, StoreVectors, Live
<1>2. LET q == [pass[s] EXCEPT !.phase = "stored"] IN
      q.phase = "stored" /\ q.ws = v /\ q.model = n /\ q.batch = b
  BY <1>1 DEF Passes
<1>3. /\ pass'[s].phase = "stored" /\ pass'[s].ws = v /\ pass'[s].model = n /\ pass'[s].batch = b
      /\ \A t \in Permits \ {s} : pass'[t] = pass[t]
  BY <1>1, <1>2
<1>4. \A w \in Workspaces, m \in Models : Rows(w, m)' \subseteq Rows(w, m) \cup b
  BY <1>1 DEF Rows
<1>5. ASSUME NEW w \in Workspaces, NEW m \in Models, Elsewhere(w, m)
      PROVE  Rows(w, m)' \subseteq Rows(w, m)
  BY <1>1, <1>5 DEF Rows
<1>6. ASSUME NEW w \in Workspaces, NEW m \in Models
      PROVE  Committed(w, m) \subseteq Committed(w, m)'
  <2> SUFFICES ASSUME NEW t \in Permits, NEW p \in pass[t].batch,
                      pass[t].phase = "stored", pass[t].ws = w, pass[t].model = m
               PROVE  p \in Committed(w, m)'
    BY DEF Committed
  <2>1. t # s
    BY <1>1
  <2> QED BY <2>1, <1>3 DEF Committed
<1>7. ASSUME NEW w \in Workspaces, NEW m \in Models, w = v, m = n
      PROVE  b \subseteq Committed(w, m)'
  BY <1>3, <1>7 DEF Committed
<1>8. ASSUME NEW w \in Workspaces, NEW m \in Models
      PROVE  Due(w, m)' \subseteq Due(w, m)
  <2>1. CASE Elsewhere(w, m)
    BY <2>1, <1>5, <1>6 DEF Due
  <2>2. CASE w = v /\ m = n
    BY <2>2, <1>4, <1>6, <1>7 DEF Due
  <2> QED BY <2>1, <2>2
<1>9. CopiesAreComplete'
  BY <1>1, <1>8, CopiesKept
<1>10. ASSUME NEW r \in Searches
       PROVE  SearchRight(search[r])'
  <2> DEFINE k == search[r]
             h == search'[r]
  <2>1. SearchRight(k)
    BY DEF SearchesRight
  <2>2. /\ h.phase = k.phase /\ h.ws = k.ws /\ h.model = k.model /\ h.after = k.after
        /\ h.copy.model = k.copy.model /\ h.copy.ids = k.copy.ids
        /\ k.phase \in {"building", "built"} /\ k.ws = v /\ k.model = n => h.copy.whole = FALSE
        /\ ~(k.phase \in {"building", "built"} /\ k.ws = v /\ k.model = n) => h = k
    <3>1. Unwhole(v, n)
      BY DEF CommitVectors
    <3>2. h.phase = k.phase /\ h.ws = k.ws /\ h.model = k.model /\ h.after = k.after
      BY <3>1, UnwholeIs
    <3>3. h.copy.model = k.copy.model /\ h.copy.ids = k.copy.ids
      BY <3>1, UnwholeIs
    <3>4. k.phase \in {"building", "built"} /\ k.ws = v /\ k.model = n => h.copy.whole = FALSE
      BY <3>1, UnwholeIs
    <3>5. ~(k.phase \in {"building", "built"} /\ k.ws = v /\ k.model = n) => h = k
      <4>1. h = IF k.phase \in {"building", "built"} /\ k.ws = v /\ k.model = n
                THEN [k EXCEPT !.copy.whole = FALSE] ELSE k
        BY <3>1 DEF Unwhole
      <4> HIDE DEF v, n, h, k
      <4> QED BY <4>1
    <3> QED BY <3>2, <3>3, <3>4, <3>5
  <2>3. CASE k.phase \in {"building", "built"} /\ k.ws = v /\ k.model = n
    <3> HIDE DEF v, n, b, Elsewhere
    <3> QED BY <2>1, <2>2, <2>3 DEF SearchRight
  <2>4. CASE k.phase \in {"building", "built"} /\ ~(k.ws = v /\ k.model = n)
    <3>1. k.ws \in Workspaces /\ k.model \in Models /\ h = k /\ Elsewhere(k.ws, k.model)
      BY <2>1, <2>2, <2>4 DEF SearchRight
    <3>2. \A w \in Workspaces, m \in Models : Elsewhere(w, m) => Rows(w, m)' \subseteq Rows(w, m)
      BY <1>5
    <3> HIDE DEF Elsewhere, v, n, b
    <3> QED BY <2>1, <3>1, <3>2 DEF SearchRight
  <2>5. CASE k.phase \notin {"building", "built"}
    BY <2>1, <2>2, <2>5 DEF SearchRight
  <2> QED BY <2>3, <2>4, <2>5
<1> QED BY <1>9, <1>10 DEF SearchesRight

\* A pass applies what it has committed to the copy there is, and goes on.
LEMMA ApplyKeeps ==
    ASSUME TypeOK, IndexTypeOK, IndexTypeOK', CopiesAreComplete, SearchesRight,
           NEW s \in Permits, ApplyVectors(s)
    PROVE  CopiesAreComplete' /\ SearchesRight'
<1> DEFINE v == pass[s].ws
           n == pass[s].model
           b == pass[s].batch
<1>1. /\ pass \in [Permits -> Passes] /\ pass[s].phase = "stored" /\ v \in Workspaces
      /\ vector' = vector /\ search' = search
      /\ \A t \in Permits \ {s} : pass'[t] = pass[t]
      /\ copy \in [Workspaces -> Copies]
  BY DEF TypeOK, IndexTypeOK, ApplyVectors, Proceed, End, rowVars, Passes
<1>2. \A w \in Workspaces, m \in Models : Rows(w, m)' = Rows(w, m)
  BY <1>1 DEF Rows
<1>3. SearchesRight'
  BY <1>1, <1>2, SearchesKept
<1>4. ASSUME NEW w \in Workspaces, NEW m \in Models, NEW p \in Committed(w, m), p \notin Committed(w, m)'
      PROVE  w = v /\ m = n /\ p \in b
  <2>1. PICK t \in Permits : p \in pass[t].batch /\ pass[t].phase = "stored" /\ pass[t].ws = w /\ pass[t].model = m
    BY DEF Committed
  <2>2. CASE t # s
    BY <1>1, <1>4, <2>1, <2>2 DEF Committed
  <2>3. CASE t = s
    BY <2>1, <2>3
  <2> QED BY <2>2, <2>3
<1>5. ASSUME NEW w \in Workspaces, NEW m \in Models, copy'[w].model = m, copy'[w].whole
      PROVE  Due(w, m)' \subseteq copy'[w].ids
  <2> DEFINE k == [copy[v] EXCEPT !.ids = @ \cup b]
  <2>1. k.model = copy[v].model /\ k.whole = copy[v].whole /\ k.ids = copy[v].ids \cup b
    BY <1>1 DEF Copies
  <2>2. copy' = IF copy[v].model = n THEN [copy EXCEPT ![v] = k] ELSE copy
    BY DEF ApplyVectors
  <2> HIDE DEF k, v, n, b
  <2>3. /\ copy'[w].model = copy[w].model /\ copy'[w].whole = copy[w].whole
        /\ copy[w].ids \subseteq copy'[w].ids
        /\ w = v /\ m = n => b \subseteq copy'[w].ids
    <3>1. CASE w = v /\ copy[v].model = n
      BY <3>1, <2>1, <2>2, <1>1
    <3>2. CASE ~(w = v /\ copy[v].model = n)
      <4>1. copy'[w] = copy[w]
        BY <3>2, <2>2, <1>1
      <4> QED BY <4>1, <3>2, <1>5
    <3> QED BY <3>1, <3>2
  <2>4. Due(w, m) \subseteq copy[w].ids
    BY <2>3, <1>5, CompleteIs
  <2> QED BY <1>2, <1>4, <2>3, <2>4 DEF Due
<1> QED BY <1>3, <1>5, CompleteNext

-----------------------------------------------------------------------------
\* The steps of a search.
LEMMA CountKeeps ==
    ASSUME IndexTypeOK, IndexTypeOK', CopiesAreComplete, SearchesRight,
           NEW r \in Searches, NEW w \in Workspaces, NEW m \in Models, CountRows(r, w, m)
    PROVE  CopiesAreComplete' /\ SearchesRight'
<1>1. PICK h \in Looks :
        /\ search' = [search EXCEPT ![r] = h]
        /\ h.ws = w /\ h.model = m
        /\ h.phase \in {"counted", "found", "scanning"}
        /\ h.phase = "counted" => h.after = 0 /\ h.copy = NoCopy
  BY CountIs
<1>2. SearchRight(h)
  BY <1>1 DEF SearchRight
<1>3. UNCHANGED vars /\ (copy' = copy \/ copy' = [copy EXCEPT ![w] = NoCopy])
  BY CountIs
<1>4. SearchesRight'
  BY <1>1, <1>2, <1>3, OneSearch
<1>5. \A v \in Workspaces, n \in Models : Due(v, n)' = Due(v, n)
  BY <1>3 DEF vars, rowVars, Due, Rows, Committed
<1>6. ASSUME NEW v \in Workspaces, NEW n \in Models, copy'[v].model = n, copy'[v].whole
      PROVE  Due(v, n)' \subseteq copy'[v].ids
  <2>1. copy'[v] = copy[v]
    BY <1>3, <1>6, NothingTyped, ConstantsOK DEF IndexTypeOK
  <2> QED BY <2>1, <1>5, <1>6, CompleteIs
<1> QED BY <1>4, <1>6, CompleteNext

\* The begin of a build: nothing is read, and everything is ahead.
LEMMA BeginKeeps ==
    ASSUME IndexTypeOK, IndexTypeOK', CopiesAreComplete, SearchesRight, NEW r \in Searches, BeginBuild(r)
    PROVE  CopiesAreComplete' /\ SearchesRight'
<1> DEFINE k == search[r]
<1>1. PICK h \in Looks : /\ search' = [search EXCEPT ![r] = h] /\ h.ws = k.ws
                         /\ h.phase = "found" \/ h = BuildOf(k)
  BY BeginIs
<1>2. k \in Looks /\ k.phase = "counted" /\ UNCHANGED <<vars, copy>>
  BY BeginIs DEF IndexTypeOK
<1>3. SearchRight(k)
  BY DEF SearchesRight
<1>4. SearchRight(h)
  <2>1. CASE h.phase = "found"
    BY <2>1 DEF SearchRight
  <2>2. CASE h = BuildOf(k)
    <3>1. /\ h.phase = "building" /\ h.ws = k.ws /\ h.model = k.model /\ h.after = 0
          /\ h.copy.model = k.model
      BY <2>2, <1>2, <1>3, BuildIs DEF SearchRight
    <3>2. \A p \in Rows(h.ws, h.model) : ~(p <= h.after)
      <4>1. \A p \in Passages : p \in Nat /\ p # 0
        BY ConstantsOK, IndexConstantsOK
      <4> QED BY <4>1, <3>1 DEF Rows
    <3> QED BY <3>1, <3>2, <1>2, <1>3 DEF SearchRight
  <2> QED BY <1>1, <2>1, <2>2
<1>5. SearchesRight'
  BY <1>1, <1>2, <1>4, OneSearch
<1>6. \A v \in Workspaces, n \in Models : Due(v, n)' = Due(v, n)
  BY <1>2 DEF vars, rowVars, Due, Rows, Committed
<1> QED BY <1>2, <1>5, <1>6, CopiesKept

\* A page: what it holds is in the copy, and the rest is still ahead.
LEMMA ReadKeeps ==
    ASSUME IndexTypeOK, IndexTypeOK', CopiesAreComplete, SearchesRight, NEW r \in Searches, ReadPage(r)
    PROVE  CopiesAreComplete' /\ SearchesRight'
<1> DEFINE k == search[r]
           page == NextPage(k)
           h == ReadOn(k, page)
<1>1. /\ search' = [search EXCEPT ![r] = h] /\ UNCHANGED <<vars, copy>>
      /\ k \in Looks /\ k.phase = "building" /\ page \in SUBSET Passages
  BY ReadPageIs
<1>2. SearchRight(k)
  BY DEF SearchesRight
<1>3. /\ h \in Looks
      /\ h.ws = k.ws /\ h.model = k.model
      /\ h.copy.model = k.copy.model /\ h.copy.whole = k.copy.whole
      /\ h.copy.ids = k.copy.ids \cup page
      /\ h.after = IF page = {} THEN k.after ELSE Last(page)
      /\ h.phase = IF Cardinality(page) < Page THEN "built" ELSE "building"
  BY <1>1, ReadOnIs
<1>4. /\ page \subseteq Rows(k.ws, k.model)
      /\ Cardinality(page) < Page => \A p \in Rows(k.ws, k.model) : p > k.after => p \in page
      /\ \A p \in Rows(k.ws, k.model), q \in page : p > k.after /\ p <= q => p \in page
  BY <1>1, PageIs
<1>5. /\ k.ws \in Workspaces /\ k.model \in Models /\ k.copy.model = k.model
      /\ k.copy.whole => \A p \in Rows(k.ws, k.model) : p <= k.after => p \in k.copy.ids
  BY <1>1, <1>2 DEF SearchRight
<1>6. k.after \in Nat /\ \A p \in Rows(k.ws, k.model) : p \in Nat
  BY <1>1, ConstantsOK DEF Looks, Rows
<1>7. page # {} => Last(page) \in page /\ Last(page) \in Nat
  BY <1>1, LastIs
<1> HIDE DEF k, page, h
<1>8. ASSUME k.copy.whole, NEW p \in Rows(k.ws, k.model), p <= h.after \/ h.phase = "built"
      PROVE  p \in h.copy.ids
  <2>1. CASE p <= k.after
    BY <2>1, <1>3, <1>5, <1>8
  <2>2. CASE p > k.after /\ Cardinality(page) < Page
    BY <2>2, <1>3, <1>4
  <2>3. CASE p > k.after /\ ~(Cardinality(page) < Page)
    <3>1. p <= h.after
      BY <2>3, <1>3, <1>8
    <3>2. page # {} /\ h.after = Last(page)
      BY <3>1, <2>3, <1>3, <1>6
    <3>3. p \in page
      BY <3>1, <3>2, <2>3, <1>4, <1>7
    <3> QED BY <3>3, <1>3
  <2>4. p <= k.after \/ p > k.after
    BY <1>6
  <2> QED BY <2>1, <2>2, <2>3, <2>4
<1>9. SearchRight(h)
  <2>1. h.phase \in {"building", "built"}
    BY <1>3
  <2> QED BY <2>1, <1>3, <1>5, <1>8 DEF SearchRight
<1>10. SearchesRight'
  BY <1>1, <1>3, <1>9, OneSearch
<1>11. \A v \in Workspaces, n \in Models : Due(v, n)' = Due(v, n)
  BY <1>1 DEF vars, rowVars, Due, Rows, Committed
<1> QED BY <1>1, <1>10, <1>11, CopiesKept

\* The built copy is stored, and others may be forgotten.
LEMMA StoreKeeps ==
    ASSUME IndexTypeOK, IndexTypeOK', CopiesAreComplete, SearchesRight, NEW r \in Searches, StoreCopy(r)
    PROVE  CopiesAreComplete' /\ SearchesRight'
<1> DEFINE k == search[r]
           h == [k EXCEPT !.phase = "found"]
<1>1. k \in Looks /\ k.phase = "built" /\ UNCHANGED vars /\ SearchRight(k)
  BY DEF IndexTypeOK, StoreCopy, SearchesRight
<1>2. h \in Looks /\ h.phase = "found" /\ search' = [search EXCEPT ![r] = h]
  BY <1>1 DEF Looks, StoreCopy
<1> HIDE DEF h
<1>3. SearchRight(h)
  BY <1>2 DEF SearchRight
<1>4. SearchesRight'
  BY <1>1, <1>2, <1>3, OneSearch
<1>5. \A v \in Workspaces, n \in Models : Due(v, n)' = Due(v, n)
  BY <1>1 DEF vars, rowVars, Due, Rows, Committed
<1>6. ASSUME NEW v \in Workspaces, NEW n \in Models, copy'[v].model = n, copy'[v].whole
      PROVE  Due(v, n)' \subseteq copy'[v].ids
  <2>1. CASE v = k.ws
    <3>1. copy'[v] = k.copy /\ k.model = n /\ Rows(v, n) \subseteq k.copy.ids
      BY <2>1, <1>1, <1>6 DEF SearchRight, StoreCopy
    <3> QED BY <3>1, <1>5 DEF Due
  <2>2. CASE v # k.ws
    <3>1. copy'[v] = NoCopy \/ copy'[v] = copy[v]
      BY <2>2 DEF StoreCopy
    <3>2. copy'[v] = copy[v]
      BY <3>1, <1>6, NothingTyped, ConstantsOK
    <3> QED BY <3>2, <1>5, <1>6, CompleteIs
  <2> QED BY <2>1, <2>2
<1> QED BY <1>4, <1>6, CompleteNext

\* The end of a search.
LEMMA EndKeeps ==
    ASSUME IndexTypeOK, IndexTypeOK', CopiesAreComplete, SearchesRight,
           NEW r \in Searches, Answer(r) \/ DropSearch(r)
    PROVE  CopiesAreComplete' /\ SearchesRight'
<1>1. search' = [search EXCEPT ![r] = NoSearch] /\ UNCHANGED <<vars, copy>>
  BY DEF Answer, DropSearch
<1>2. SearchRight(NoSearch)
  BY NothingTyped DEF SearchRight
<1>3. SearchesRight'
  BY <1>1, <1>2, NothingTyped, OneSearch
<1>4. \A v \in Workspaces, n \in Models : Due(v, n)' = Due(v, n)
  BY <1>1 DEF vars, rowVars, Due, Rows, Committed
<1> QED BY <1>1, <1>3, <1>4, CopiesKept

-----------------------------------------------------------------------------
(* All steps *)

\* Where there are neither copies nor searches nothing is missing.
LEMMA NothingComplete ==
    ASSUME IndexTypeOK', \A w \in Workspaces : copy'[w] = NoCopy,
           \A r \in Searches : search'[r] = NoSearch
    PROVE  CopiesAreComplete' /\ SearchesRight'
<1>1. CopiesAreComplete'
  BY NothingTyped DEF CopiesAreComplete
<1>2. SearchesRight'
  BY NothingTyped DEF SearchesRight, SearchRight
<1> QED BY <1>1, <1>2

\* Every step keeps the copies complete and the builds right.
LEMMA StepComplete ==
    ASSUME CompleteInv, [IndexNext]_allVars, TypeOK'
    PROVE  CompleteInv'
<1> DEFINE Goal == CopiesAreComplete' /\ SearchesRight'
<1>0. TypeOK /\ IndexTypeOK /\ CopiesAreComplete /\ SearchesRight
  BY DEF CompleteInv
<1>1. IndexTypeOK'
  BY <1>0, IndexTyped
<1>2. ASSUME copy' = copy, search' = search,
             \A p \in Passages : vector'[p] = vector[p] \/ vector'[p] = None,
             \A s \in Permits : pass[s].phase = "stored" =>
                /\ pass'[s].phase = "stored" /\ pass'[s].ws = pass[s].ws
                /\ pass'[s].model = pass[s].model /\ pass'[s].batch = pass[s].batch
      PROVE  Goal
  <2>1. \A w \in Workspaces, m \in Models : Rows(w, m)' \subseteq Rows(w, m) /\ Due(w, m)' \subseteq Due(w, m)
    BY <1>2, DueKept
  <2> QED BY <2>1, <1>0, <1>1, <1>2, CopiesKept, SearchesKept
<1>3. ASSUME Quiet /\ UNCHANGED indexVars
      PROVE  Goal
  <2>1. /\ \A p \in Passages : vector'[p] = vector[p] \/ vector'[p] = None
        /\ \A s \in Permits : pass[s].phase = "stored" =>
              /\ pass'[s].phase = "stored" /\ pass'[s].ws = pass[s].ws
              /\ pass'[s].model = pass[s].model /\ pass'[s].batch = pass[s].batch
    BY <1>0, <1>3, QuietMakesNone
  <2>2. copy' = copy /\ search' = search
    BY <1>3 DEF indexVars
  <2> QED BY <2>1, <2>2, <1>2
<1>4. ASSUME NEW s \in Permits, CommitVectors(s) \/ ApplyVectors(s)
      PROVE  Goal
  BY <1>0, <1>1, <1>4, CommitKeeps, ApplyKeeps
<1>5. ASSUME NEW c \in Handlers, ForgetVectors(c)
      PROVE  Goal
  <2> DEFINE v == caller[c].ws
  <2>1. /\ \A p \in Passages : vector'[p] = vector[p] \/ vector'[p] = None
        /\ pass' = pass /\ search' = search
        /\ copy' = [copy EXCEPT ![v] = NoCopy]
    BY <1>5 DEF ForgetVectors, ClearVectors
  <2>2. \A w \in Workspaces, m \in Models : Rows(w, m)' \subseteq Rows(w, m) /\ Due(w, m)' \subseteq Due(w, m)
    BY <2>1, DueKept
  <2>3. SearchesRight'
    BY <2>1, <2>2, <1>0, SearchesKept
  <2>4. ASSUME NEW w \in Workspaces, NEW m \in Models, copy'[w].model = m, copy'[w].whole
        PROVE  Due(w, m)' \subseteq copy'[w].ids
    <3>1. copy'[w] = copy[w]
      BY <2>1, <2>4, <1>0, NothingTyped, ConstantsOK DEF IndexTypeOK
    <3>2. Due(w, m) \subseteq copy[w].ids
      BY <3>1, <2>4, <1>0, CompleteIs
    <3> QED BY <3>1, <3>2, <2>2
  <2> QED BY <2>3, <2>4, <1>1, CompleteNext
<1>6. ASSUME RestartEmpty
      PROVE  Goal
  <2>1. /\ \A w \in Workspaces : copy'[w] = NoCopy
        /\ \A r \in Searches : search'[r] = NoSearch
    BY <1>6 DEF RestartEmpty
  <2> QED BY <2>1, <1>1, NothingComplete
<1>7. ASSUME NEW r \in Searches, SearchStep(r)
      PROVE  Goal
  BY <1>0, <1>1, <1>7, CountKeeps, BeginKeeps, ReadKeeps, StoreKeeps, EndKeeps DEF SearchStep
<1>8. ASSUME UNCHANGED allVars
      PROVE  Goal
  <2>1. copy' = copy /\ search' = search /\ vector' = vector /\ pass' = pass
    BY <1>8 DEF allVars, vars, rowVars, indexVars
  <2> QED BY <2>1, <1>2
<1> HIDE DEF Goal
<1>9. Goal
  BY <1>3, <1>4, <1>5, <1>6, <1>7, <1>8 DEF IndexNext
<1> QED BY <1>1, <1>9 DEF CompleteInv, Goal

\* The first state has neither.
LEMMA InitComplete == AllInit => CompleteInv
<1> SUFFICES ASSUME AllInit PROVE CompleteInv
  OBVIOUS
<1>1. TypeOK /\ IndexTypeOK
  BY IndexInitTyped
<1>2. CopiesAreComplete /\ SearchesRight
  BY NothingTyped DEF AllInit, IndexInit, CopiesAreComplete, SearchesRight, SearchRight
<1> QED BY <1>1, <1>2 DEF CompleteInv

\* A copy whose build no commit came into lacks at most what a pass is about to
\* apply to it, whatever is embedded, indexed again, deleted, cleared or searched
\* meanwhile: a search that uses it misses no vector.
THEOREM CopiesComplete == IndexSpec => []CopiesAreComplete
<1>1. CompleteInv /\ [IndexNext]_allVars /\ TypeOK' => CompleteInv'
  BY StepComplete
<1>2. AllInit => CompleteInv
  BY InitComplete
<1>3. CompleteInv => CopiesAreComplete
  BY DEF CompleteInv
<1>4. IndexSpec => []TypeOK
  BY IndexImplements, TypeCorrect, PTL
<1> QED BY <1>1, <1>2, <1>3, <1>4, PTL DEF IndexSpec

\* Such a copy is exact when it is used: when it has as many vectors as the
\* database has rows and no pass is between its commit and the copy, it has those rows.
WholeCopiesAreExact ==
    \A w \in Workspaces, m \in Models :
        copy[w].whole /\ IsCurrent(w, m, Cardinality(Rows(w, m))) /\ Committed(w, m) = {}
        => copy[w].ids = Rows(w, m)

\* The comparison of two numbers, with which a search decides that a copy is
\* current, decides it rightly for every copy whose build no commit came into.
THEOREM WholeCopiesExact == IndexSpec => []WholeCopiesAreExact
<1>1. ASSUME IndexTypeOK, CopiesAreComplete
      PROVE  WholeCopiesAreExact
  <2> SUFFICES ASSUME NEW w \in Workspaces, NEW m \in Models, copy[w].whole,
                      IsCurrent(w, m, Cardinality(Rows(w, m))), Committed(w, m) = {}
               PROVE  copy[w].ids = Rows(w, m)
    BY DEF WholeCopiesAreExact
  <2>1. copy[w].model = m /\ Cardinality(copy[w].ids) = Cardinality(Rows(w, m))
    BY DEF IsCurrent
  <2>2. Rows(w, m) \subseteq copy[w].ids
    BY <1>1, <2>1, CompleteIs DEF Due
  <2>3. copy[w].ids \in SUBSET Passages
    BY <1>1 DEF IndexTypeOK, Copies
  <2>4. IsFiniteSet(copy[w].ids)
    BY <2>3, ConstantsOK, FS_Subset
  <2> QED BY <2>1, <2>2, <2>4, FS_Subset
<1> QED BY <1>1, IndexTypeCorrect, CopiesComplete, PTL
=============================================================================
