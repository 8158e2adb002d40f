-------------------------- MODULE DirectoryProofs --------------------------
(***************************************************************************)
(* Proofs about the resources of a server and the registrations of a       *)
(* resource directory.  Every step of a worker is of one of a few kinds    *)
(* (Kinds), by what it does to the tree and to the objects; TreeInv is     *)
(* inductive for the kinds, DirectoryInv adds the collection and its lock. *)
(***************************************************************************)
EXTENDS Directory, TLAPS, FiniteSetTheorems, SequenceTheorems, WellFoundedInduction

Pcs == {"new", "route", "discover", "post", "render", "callback", "finish", "insert", "done", "dead"}
Workers == [pc : Pcs, object : Nat, code : Codes, create : BOOLEAN, keys : SUBSET Seq(Segments), met : SUBSET Nat]
Objects == [class : Classes, path : Seq(Segments), payload : Nat, etag : Int]
Documents == [id : Int, loc : Int, ep : STRING, lt : Int, time : Nat, by : Nat]

-----------------------------------------------------------------------------
(* The inductive invariant.                                                *)

Handles(r) == worker[r].pc \in {"render", "callback", "finish", "insert"}

\* The variables keep their types; a worker that handles a request has a resource.
Types ==
  /\ script \in Seq(Requests)
  /\ tree \in [DOMAIN tree -> DOMAIN object] /\ DOMAIN tree \subseteq Seq(Segments)
  /\ object \in Seq(Objects)
  /\ worker \in [Rs -> Workers]
  /\ \A r \in Rs : Handles(r) => worker[r].object \in DOMAIN object

\* The root stays in the tree, and is handed to no handler that could move it.
RootStands ==
  /\ Root \in DOMAIN tree /\ object[tree[Root]].class = "root"
  /\ \A r \in Rs : /\ worker[r].pc = "post" =>
                       /\ script[r].method = "POST"
                       /\ \E p \in worker[r].keys : /\ worker[r].keys = {p} /\ IsPrefix(p, Path(r))
                                                   /\ worker[r].create = (p # Path(r))
                   /\ Handles(r) /\ Path(r) = Root => worker[r].pc = "render" /\ Held(r).class = "root"
                   /\ worker[r].create => worker[r].pc # "new" /\ worker[r].pc # "route"

\* Workers whose handling overlaps have met.
Met == \A r, q \in Rs : r # q /\ Active(r) /\ Active(q) => q \in worker[r].met
\* What a worker has found in the tree is there until a DELETE crosses it.
Crossed(r) == \E q \in worker[r].met : script[q].method = "DELETE"
Finds ==
  \A r \in Rs :
    /\ worker[r].pc \in {"post", "discover"} => \A p \in worker[r].keys : p \in DOMAIN tree \/ Crossed(r)
    /\ Handles(r) /\ script[r].method = "DELETE" => Path(r) \in DOMAIN tree \/ Crossed(r)
    /\ worker[r].pc = "dead" => Empty(r) \/ Crossed(r)

\* A resource that counts its states stays where it was made, and alone there.
EtagHome ==
  \A i \in DOMAIN Resources : Resources[i].class = "etag" =>
    LET p == Resources[i].path IN
    /\ p \in DOMAIN tree /\ tree[p] = i
    /\ i \in DOMAIN object /\ object[i].class = "etag" /\ object[i].path # Root /\ object[i].etag \in Nat
    /\ \A x \in DOMAIN object : object[x].path = p => x = i
    /\ \A r \in Rs : Path(r) = p =>
         /\ worker[r].pc = "post" => worker[r].keys = {p} /\ ~worker[r].create
         /\ Handles(r) => /\ worker[r].object = i /\ ~worker[r].create /\ worker[r].pc \in {"render", "finish"}
                          /\ worker[r].pc = "finish" => script[r].method # "DELETE"
\* Its count is past the state that a POST was for once that has been handled, so
\* two for one state were checked before either was handled.
Passed(r) == Handles(r) \/ Wrote(r)
OnState(r, i) == script[r].method = "POST" /\ Path(r) = Resources[i].path /\ script[r].ifMatch # -1
EtagCounts ==
  \A i \in DOMAIN Resources : Resources[i].class = "etag" =>
   /\ \A r \in Rs : OnState(r, i) =>
    /\ worker[r].pc = "render" => script[r].ifMatch <= object[i].etag
    /\ worker[r].pc = "finish" \/ Wrote(r) => script[r].ifMatch < object[i].etag
   /\ \A r, q \in Rs : 
        (r # q /\ OnState(r, i) /\ OnState(q, i) /\ script[r].ifMatch = script[q].ifMatch
         /\ Passed(r) /\ Passed(q)) => q \in worker[r].met

\* An update that has changed a registration keeps that result to its end.
Updated ==
  \A r \in Rs : Misplaces(r) /\ worker[r].code = "CHANGED" =>
    worker[r].pc = "done" \/ (worker[r].pc = "finish" /\ Held(r).class = "rd")
\* Unless an update misplaces one: no id is below its location, which no other has.
Apart == /\ \A d \in db : 0 <= d.loc /\ d.loc <= d.id
         /\ \A d, e \in db : d.loc = e.loc => d = e
Collection ==
  /\ db \subseteq Documents /\ IsFiniteSet(db) /\ now \in 0..MaxTime /\ next \in Nat
  /\ WellPlaced => Apart
\* The lock is held by the worker that inserts, and its id is above all locations;
\* not above all ids, as updates take no lock.
Locked ==
  /\ \A r \in Rs : worker[r].pc = "insert" <=> lock = r
  /\ lock \in {0} \cup Rs
  /\ lock # 0 /\ WellPlaced => \A d \in db : d.loc < next

-----------------------------------------------------------------------------
\* A finite set of integers has a greatest element.
LEMMA Greatest ==
  ASSUME NEW S, IsFiniteSet(S), S # {}, S \subseteq Int
  PROVE  \E m \in S : \A x \in S : x <= m
<1> DEFINE Larger(x) == {y \in S : x < y}
           R == StrictSubsetOrdering(S)
           T == {Larger(x) : x \in S}
<1>1. IsWellFoundedOn(R, FiniteSubsetsOf(S))  BY FS_StrictSubsetOrderingWellFounded
<1>2. T \subseteq FiniteSubsetsOf(S)
  <2>1. \A x \in S : Larger(x) \subseteq S /\ IsFiniteSet(Larger(x))  BY FS_Subset
  <2>2. QED  BY <2>1 DEF FiniteSubsetsOf
<1>3. T # {}  OBVIOUS
<1>4. PICK t \in T : \A u \in T : ~(<<u, t>> \in R)
  <2> HIDE DEF R, T
  <2>1. QED BY <1>1, <1>2, <1>3, WFMin
<1>5. PICK m \in S : t = Larger(m)  BY <1>4
<1>6. ASSUME NEW x \in S, m < x  PROVE FALSE
  <2>0. x \in Int /\ m \in Int /\ \A y \in S : y \in Int  OBVIOUS
  <2>1. ASSUME NEW y \in S, x < y  PROVE m < y  BY <1>6, <2>0, <2>1
  <2>2. x \in Larger(m) /\ x \notin Larger(x)  BY <1>6
  <2>3. <<Larger(x), Larger(m)>> \in R
    <3>1. Larger(x) \subseteq Larger(m)  BY <2>1
    <3>2. Larger(x) \subseteq S /\ Larger(m) \subseteq S  OBVIOUS
    <3> HIDE DEF Larger
    <3>3. QED  BY <2>2, <3>1, <3>2 DEF StrictSubsetOrdering
  <2>4. QED  BY <1>4, <1>5, <2>3
<1>7. QED  BY <1>6

\* Paths and what begins them.
LEMMA EmptyIsPrefix ==
  ASSUME NEW p \in Seq(Segments)
  PROVE  IsPrefix(<<>>, p)
BY DEF IsPrefix

LEMMA PrefixOfEmpty ==
  ASSUME NEW p \in Seq(Segments), IsPrefix(p, <<>>)
  PROVE  p = <<>>
BY DEF IsPrefix

LEMMA PrefixIsShorter ==
  ASSUME NEW p \in Seq(Segments), NEW q \in Seq(Segments), IsPrefix(p, q)
  PROVE  Len(p) \in 0..Len(q)
BY DEF IsPrefix
LEMMA PrefixOfSame ==
  ASSUME NEW p \in Seq(Segments)
  PROVE  IsPrefix(p, p)
BY DEF IsPrefix
LEMMA SameLengthPrefix ==
  ASSUME NEW p \in Seq(Segments), NEW q \in Seq(Segments), IsPrefix(p, q), Len(q) <= Len(p)
  PROVE  p = q
BY DEF IsPrefix

\* A request's path, as the server reads it, is a path.
LEMMA PathType == ASSUME Types, NEW r \in Rs PROVE Path(r) \in Seq(Segments) /\ script[r] \in Requests
<1>1. script[r] \in Requests  BY ElementOfSeq, LenProperties DEF Types, Rs
<1>2. Rd \in Seq(Segments)
  <2>1. "/rd" \in Segments  BY TreeAssumption
  <2>2. <<>> \in Seq(Segments)  BY EmptySeq
  <2>3. Rd = Append(<<>>, "/rd")  BY DEF Rd
  <2>4. QED  BY <2>1, <2>2, <2>3, AppendProperties
<1>3. script[r].path \in Seq(Segments)  BY <1>1 DEF Requests
<1>4. QED  BY <1>1, <1>2, <1>3 DEF Path

\* While the tree has its root, a path for POST has a longest path that begins it,
\* itself if the tree has it.
LEMMA AboveIs ==
  ASSUME Types, Root \in DOMAIN tree, NEW p \in Seq(Segments)
  PROVE  /\ Above(p) \in DOMAIN tree /\ IsPrefix(Above(p), p)
         /\ p \in DOMAIN tree => Above(p) = p
<1> DEFINE Q == {q \in DOMAIN tree : IsPrefix(q, p)}
           L == {Len(q) : q \in Q}
<1>0. DOMAIN tree \subseteq Seq(Segments)  BY DEF Types
<1>1. Root \in Q  BY EmptyIsPrefix DEF Root
<1>2. \A q \in Q : Len(q) \in 0..Len(p)  BY <1>0, PrefixIsShorter
<1>3. IsFiniteSet(L) /\ L \subseteq Int /\ L # {}
  <2>1. L \subseteq 0..Len(p)  BY <1>2
  <2>2. IsFiniteSet(0..Len(p)) /\ 0..Len(p) \subseteq Int  BY FS_Interval, LenProperties
  <2>3. QED  BY <1>1, <2>1, <2>2, FS_Subset
<1>4. PICK m \in L : \A n \in L : n <= m
  <2> HIDE DEF L
  <2>1. QED  BY <1>3, Greatest
<1>5. PICK q \in Q : m = Len(q)  BY <1>4
<1>6. \A o \in DOMAIN tree : IsPrefix(o, p) => Len(o) <= Len(q)  BY <1>4, <1>5
<1>7. /\ Above(p) \in DOMAIN tree /\ IsPrefix(Above(p), p)
      /\ \A o \in DOMAIN tree : IsPrefix(o, p) => Len(o) <= Len(Above(p))
  BY <1>5, <1>6 DEF Above
<1>8. ASSUME p \in DOMAIN tree  PROVE Above(p) = p
  <2>1. Len(p) <= Len(Above(p))  BY <1>7, <1>8, PrefixOfSame
  <2>2. QED  BY <1>0, <1>7, <2>1, SameLengthPrefix
<1>9. QED  BY <1>7, <1>8

-----------------------------------------------------------------------------
Moves(r) ==
  /\ worker' \in [Rs -> Workers]
  /\ \A q \in Rs : q # r => worker'[q] = worker[q]
  /\ worker'[r].met = worker[r].met

\* What the assignments to a worker change, and what they leave alone.
LEMMA GotoMoves ==
  ASSUME Types, NEW r \in Rs, NEW pc \in Pcs, Goto(r, pc)
  PROVE  /\ Moves(r) /\ worker'[r].pc = pc
         /\ worker'[r].object = worker[r].object /\ worker'[r].code = worker[r].code
         /\ worker'[r].create = worker[r].create /\ worker'[r].keys = worker[r].keys
<1>1. worker[r] \in Workers  BY DEF Types
<1> DEFINE w == [worker[r] EXCEPT !.pc = pc]
<1>2. w \in Workers /\ worker' = [worker EXCEPT ![r] = w]  BY <1>1 DEF Goto, Workers
<1>3. w.pc = pc /\ w.object = worker[r].object /\ w.code = worker[r].code /\ w.create = worker[r].create
      /\ w.keys = worker[r].keys /\ w.met = worker[r].met  BY <1>1 DEF Workers
<1> HIDE DEF w
<1>4. QED  BY <1>2, <1>3 DEF Moves, Types

LEMMA CodeMoves ==
  ASSUME Types, NEW r \in Rs, NEW pc \in Pcs, NEW code \in Codes,
         worker' = [worker EXCEPT ![r].pc = pc, ![r].code = code]
  PROVE  /\ Moves(r) /\ worker'[r].pc = pc /\ worker'[r].code = code
         /\ worker'[r].object = worker[r].object
         /\ worker'[r].create = worker[r].create /\ worker'[r].keys = worker[r].keys
<1>1. worker[r] \in Workers  BY DEF Types
<1> DEFINE w == [worker[r] EXCEPT !.pc = pc, !.code = code]
<1>2. w \in Workers /\ worker' = [worker EXCEPT ![r] = w]  BY <1>1 DEF Workers, Types
<1>3. w.pc = pc /\ w.object = worker[r].object /\ w.code = code /\ w.create = worker[r].create
      /\ w.keys = worker[r].keys /\ w.met = worker[r].met  BY <1>1 DEF Workers
<1> HIDE DEF w
<1>4. QED  BY <1>2, <1>3 DEF Moves, Types

LEMMA ObjectMoves ==
  ASSUME Types, NEW r \in Rs, NEW pc \in Pcs, NEW x \in Nat,
         worker' = [worker EXCEPT ![r].pc = pc, ![r].object = x]
  PROVE  /\ Moves(r) /\ worker'[r].pc = pc /\ worker'[r].object = x
         /\ worker'[r].code = worker[r].code
         /\ worker'[r].create = worker[r].create /\ worker'[r].keys = worker[r].keys
<1>1. worker[r] \in Workers  BY DEF Types
<1> DEFINE w == [worker[r] EXCEPT !.pc = pc, !.object = x]
<1>2. w \in Workers /\ worker' = [worker EXCEPT ![r] = w]  BY <1>1 DEF Workers, Types
<1>3. w.pc = pc /\ w.object = x /\ w.code = worker[r].code /\ w.create = worker[r].create
      /\ w.keys = worker[r].keys /\ w.met = worker[r].met  BY <1>1 DEF Workers
<1> HIDE DEF w
<1>4. QED  BY <1>2, <1>3 DEF Moves, Types

LEMMA KeysMove ==
  ASSUME Types, NEW r \in Rs, NEW pc \in Pcs, NEW keys \in SUBSET Seq(Segments),
         worker' = [worker EXCEPT ![r].pc = pc, ![r].keys = keys]
  PROVE  /\ Moves(r) /\ worker'[r].pc = pc /\ worker'[r].keys = keys
         /\ worker'[r].object = worker[r].object /\ worker'[r].code = worker[r].code
         /\ worker'[r].create = worker[r].create
<1>1. worker[r] \in Workers  BY DEF Types
<1> DEFINE w == [worker[r] EXCEPT !.pc = pc, !.keys = keys]
<1>2. w \in Workers /\ worker' = [worker EXCEPT ![r] = w]  BY <1>1 DEF Workers, Types
<1>3. w.pc = pc /\ w.object = worker[r].object /\ w.code = worker[r].code /\ w.create = worker[r].create
      /\ w.keys = keys /\ w.met = worker[r].met  BY <1>1 DEF Workers
<1> HIDE DEF w
<1>4. QED  BY <1>2, <1>3 DEF Moves, Types

-----------------------------------------------------------------------------
Still == tree' = tree /\ object' = object
Keeps(r) == worker'[r].object = worker[r].object /\ worker'[r].create = worker[r].create
Turns(r, from, to) == worker[r].pc = from /\ worker'[r].pc = to

Success == {"CHANGED", "CREATED"}
\* The classes that answer a POST with the resource itself.
Selves == {"rd", "etag", "advanced", "separate"}
Quits(r) ==
  /\ Still /\ Keeps(r) /\ worker[r].pc # "insert" /\ worker'[r].pc = "done"
  /\ script[r].method \in {"PUT", "POST"} /\ worker'[r].code \in Success =>
       /\ worker[r].pc = "finish"
       /\ script[r].method = "POST" =>
            ~worker[r].create /\ Held(r).class # "basic" /\ worker[r].code \in Success \cup {"none"}
Dies(r) ==
  /\ Still /\ Keeps(r) /\ worker'[r].pc = "dead"
  /\ \/ worker[r].pc = "post" /\ \E p : (worker[r].keys # {} => p \in worker[r].keys) /\ p \notin DOMAIN tree
     \/ worker[r].pc = "discover" /\ \E p \in worker[r].keys : p \notin DOMAIN tree
     \/ worker[r].pc = "finish" /\ script[r].method = "DELETE" /\ Path(r) \notin DOMAIN tree
     \/ worker[r].pc = "render" /\ Empty(r)
Looks(r) ==
  /\ Still /\ Keeps(r)
  /\ \/ Turns(r, "route", "discover") /\ worker'[r].keys = DOMAIN tree
     \/ Turns(r, "discover", "discover") /\ worker'[r].keys \subseteq worker[r].keys
Gets(r) ==
  /\ Still /\ Turns(r, "route", "render") /\ script[r].method # "POST"
  /\ Path(r) \in DOMAIN tree /\ worker'[r].object = tree[Path(r)] /\ worker'[r].create = worker[r].create
Posts(r) ==
  /\ Still /\ Turns(r, "route", "post") /\ script[r].method = "POST"
  /\ worker'[r].keys = {Above(Path(r))} /\ worker'[r].create = (Above(Path(r)) # Path(r))
Takes(r) ==
  /\ Still /\ Turns(r, "post", "render") /\ worker'[r].create = worker[r].create
  /\ \E p \in DOMAIN tree :
       /\ worker[r].keys # {} => p \in worker[r].keys
       /\ worker'[r].object = tree[p]
       /\ IF worker[r].create THEN object[tree[p]].class # "root" ELSE Matches(r, tree[p])
Waits(r) == Still /\ Keeps(r) /\ Turns(r, "render", "callback") /\ Held(r).class = "separate"
Stores(r) ==
  /\ Still /\ Keeps(r)
  /\ \/ /\ Turns(r, "render", "finish") \/ (Turns(r, "render", "insert") /\ Path(r) = Rd /\ Held(r).class = "rd")
        /\ Held(r).class \notin {"root", "etag"} /\ script[r].method # "PUT"
        /\ script[r].method = "POST" =>
             Held(r).class = "rd" /\ (Path(r) # Rd => worker'[r].code \notin Success \cup {"none"})
     \/ Turns(r, "insert", "finish")
Makes(r) ==
  /\ tree' = tree /\ worker[r].pc \in {"render", "callback"} /\ worker'[r].pc = "finish"
  /\ script[r].method = "POST" /\ Held(r).class = "basic" /\ worker'[r].create = worker[r].create
  /\ object' = Append(object, NewObject("basic", Root, r)) /\ worker'[r].object = Len(object) + 1
Writes(r) ==
  /\ tree' = tree /\ Keeps(r) /\ worker[r].pc \in {"render", "callback"} /\ worker'[r].pc = "finish"
  /\ worker[r].pc = "render" => Held(r).class # "root" /\ ~(Held(r).class = "etag" /\ script[r].method = "DELETE")
  /\ worker[r].pc = "render" /\ script[r].method = "POST" => Held(r).class \in Selves
  /\ object' = Handled(r)
Puts(r) ==
  /\ Keeps(r) /\ Turns(r, "finish", "done") /\ script[r].method = "POST"
  /\ \/ (worker[r].create \/ Held(r).path = Root) /\ At(Path(r), worker[r].object)
     \/ ~worker[r].create /\ Held(r).path # Root /\ Placed(Held(r).path, worker[r].object) /\ UNCHANGED object
  /\ worker[r].create /\ worker'[r].code \in Success => worker[r].code \in Success \cup {"none"}
  /\ ~worker[r].create => Held(r).class # "rd"
Removes(r) ==
  /\ Keeps(r) /\ Turns(r, "finish", "done") /\ script[r].method = "DELETE" /\ object' = object
  /\ worker'[r].code = "DELETED" /\ tree' = [p \in DOMAIN tree \ {Path(r)} |-> tree[p]]
TreeKinds(r) ==
  \/ Quits(r) \/ Dies(r) \/ Looks(r) \/ Gets(r) \/ Posts(r) \/ Takes(r) \/ Waits(r)
  \/ Makes(r) \/ Writes(r) \/ Puts(r) \/ Removes(r)
Kinds(r) == TreeKinds(r) \/ Stores(r)
Does(r) == Active(r) /\ Moves(r) /\ script' = script /\ Kinds(r)

\* The classes that have no handler of a style.
LEMMA StyleFacts ==
  ASSUME NEW class, NEW method
  PROVE  /\ Style(class, method) \in {"plain", "advanced", "callback"} => class # "root" /\ ~(class = "etag" /\ method = "DELETE")
         /\ Style(class, method) = "callback" => class = "separate"
         /\ class \in Classes \ {"basic"} /\ Style(class, "POST") \in {"plain", "advanced"} => class \in Selves
         /\ Style("basic", "POST") = "plain" /\ Style("rd", "POST") = "directory"
<1>0. class \in Classes \ {"basic"} /\ Style(class, "POST") \in {"plain", "advanced"} => class \in Selves
  BY DEF Style, Unimplemented, Classes, Selves
<1>1. Style("basic", "POST") = "plain" /\ Style("rd", "POST") = "directory"
  BY DEF Style, Unimplemented
<1>2. CASE Unimplemented(class, method)
  BY <1>0, <1>1, <1>2 DEF Style
<1>3. CASE ~Unimplemented(class, method)
  BY <1>0, <1>1, <1>3 DEF Style, Unimplemented
<1>4. QED  BY <1>2, <1>3

\* A step on the tree starts a worker or is of one of the kinds.
LEMMA TreeStepIs == ASSUME Types, RootStands, NEW r \in Rs, TreeStep(r) PROVE Receive(r) \/ (Does(r) /\ TreeKinds(r))
<1> USE DEF Active, Still, Keeps, Turns, Pcs, Codes, Success
<1>0. DOMAIN tree \in SUBSET Seq(Segments) /\ \A p \in DOMAIN tree : tree[p] \in Nat
  BY DEF Types
<1>1. CASE RouteGet(r)
  <2>1. CASE worker' = [worker EXCEPT ![r].pc = "discover", ![r].keys = DOMAIN tree]
    <3>1. "discover" \in Pcs  OBVIOUS
    <3> HIDE DEF Pcs
    <3>2. Moves(r) /\ worker'[r].pc = "discover" /\ worker'[r].keys = DOMAIN tree /\ Keeps(r)
      BY <1>0, <2>1, <3>1, KeysMove, ZenonT(60)
    <3>3. QED  BY <1>1, <3>2 DEF RouteGet, Does, Kinds, TreeKinds, Looks
  <2>2. CASE Path(r) \in DOMAIN tree \ {Root} /\ Find(r, "render")
    <3>1. "render" \in Pcs /\ tree[Path(r)] \in Nat  BY <1>0, <2>2
    <3> HIDE DEF Pcs
    <3>2. Moves(r) /\ worker'[r].pc = "render" /\ worker'[r].object = tree[Path(r)] /\ worker'[r].create = worker[r].create
      BY <2>2, <3>1, ObjectMoves, ZenonT(60) DEF Find
    <3>3. QED  BY <1>1, <2>2, <3>2 DEF RouteGet, Does, Kinds, TreeKinds, Gets
  <2>3. CASE Answer(r, "NOT_FOUND")
    BY <1>1, <2>3, CodeMoves DEF RouteGet, Does, Kinds, TreeKinds, Quits, Answer
  <2>4. QED  BY <1>1, <2>1, <2>2, <2>3 DEF RouteGet
<1>2. CASE RouteDelete(r)
  <2>1. CASE Path(r) \in DOMAIN tree /\ Find(r, "render")
    <3>1. "render" \in Pcs /\ tree[Path(r)] \in Nat  BY <1>0, <2>1
    <3> HIDE DEF Pcs
    <3>2. Moves(r) /\ worker'[r].pc = "render" /\ worker'[r].object = tree[Path(r)] /\ worker'[r].create = worker[r].create
      BY <2>1, <3>1, ObjectMoves DEF Find
    <3>3. QED  BY <1>2, <2>1, <3>2 DEF RouteDelete, Does, Kinds, TreeKinds, Gets
  <2>2. CASE Answer(r, "NOT_FOUND")
    BY <1>2, <2>2, CodeMoves DEF RouteDelete, Does, Kinds, TreeKinds, Quits, Answer
  <2>3. QED  BY <1>2, <2>1, <2>2 DEF RouteDelete
<1>3. CASE RoutePut(r)
  <2>1. CASE Path(r) \in DOMAIN tree /\ Find(r, "render")
    <3>1. "render" \in Pcs /\ tree[Path(r)] \in Nat  BY <1>0, <2>1
    <3> HIDE DEF Pcs
    <3>2. Moves(r) /\ worker'[r].pc = "render" /\ worker'[r].object = tree[Path(r)] /\ worker'[r].create = worker[r].create
      BY <2>1, <3>1, ObjectMoves DEF Find
    <3>3. QED  BY <1>3, <2>1, <3>2 DEF RoutePut, Does, Kinds, TreeKinds, Gets
  <2>2. CASE Answer(r, "NOT_FOUND")
    BY <1>3, <2>2, CodeMoves DEF RoutePut, Does, Kinds, TreeKinds, Quits, Answer
  <2>3. CASE Answer(r, "PRECONDITION_FAILED")
    BY <1>3, <2>3, CodeMoves DEF RoutePut, Does, Kinds, TreeKinds, Quits, Answer
  <2>4. QED  BY <1>3, <2>1, <2>2, <2>3 DEF RoutePut
<1>5. CASE BeginPost(r)
  <2> DEFINE p == CHOOSE p \in worker[r].keys : TRUE
  <2>0. worker[r].keys # {} => p \in worker[r].keys  OBVIOUS
  <2>1. CASE p \notin DOMAIN tree /\ Die(r)
    <3>1. worker[r].pc = "post" /\ Still /\ script' = script  BY <1>5, <2>1 DEF BeginPost
    <3>2. Moves(r) /\ Keeps(r) /\ worker'[r].pc = "dead"  BY <2>1, GotoMoves DEF Die
    <3> HIDE DEF p
    <3>3. Dies(r)  BY <2>0, <2>1, <3>1, <3>2 DEF Dies
    <3>4. QED  BY <3>1, <3>2, <3>3 DEF Does, Kinds, TreeKinds
  <2>2. CASE p \in DOMAIN tree /\ Answer(r, "METHOD_NOT_ALLOWED")
    BY <1>5, <2>2, CodeMoves DEF BeginPost, Does, Kinds, TreeKinds, Quits, Answer
  <2>3. CASE p \in DOMAIN tree /\ Answer(r, "PRECONDITION_FAILED")
    BY <1>5, <2>3, CodeMoves DEF BeginPost, Does, Kinds, TreeKinds, Quits, Answer
  <2>4. CASE p \in DOMAIN tree /\ worker' = [worker EXCEPT ![r].pc = "render", ![r].object = tree[p]]
             /\ ~(worker[r].create /\ ~AllowsChildren(object[tree[p]].class))
             /\ ~(~worker[r].create /\ ~Matches(r, tree[p]))
    <3>1. tree[p] \in Nat  BY <2>4 DEF Types
    <3>2. QED  BY <1>5, <2>0, <2>4, <3>1, ObjectMoves DEF BeginPost, Does, Kinds, TreeKinds, Takes, AllowsChildren
  <2>5. QED  BY <1>5, <2>1, <2>2, <2>3, <2>4 DEF BeginPost
<1>6. CASE RenderNothing(r)
  BY <1>6, CodeMoves DEF RenderNothing, Does, Kinds, TreeKinds, Quits, Answer
<1>7. CASE RenderLater(r)
  BY <1>7, GotoMoves, StyleFacts DEF RenderLater, Does, Kinds, TreeKinds, Waits
<1>8. CASE Render(r)
  <2>0. worker[r].pc = "render" => Held(r).class # "root" /\ ~(Held(r).class = "etag" /\ script[r].method = "DELETE")
    BY <1>8, StyleFacts DEF Render
  <2>1. CASE MakesNew(r)
    <3>1. Len(object) + 1 \in Nat /\ "finish" \in Pcs  BY DEF Types
    <3> HIDE DEF Pcs
    <3>2. Moves(r) /\ worker'[r].pc = "finish" /\ worker'[r].object = Len(object) + 1 /\ worker'[r].create = worker[r].create
      BY <1>8, <2>1, <3>1, ObjectMoves DEF Render
    <3>3. QED  BY <1>8, <2>1, <3>2 DEF Render, Does, Kinds, TreeKinds, Makes, MakesNew
  <2>2. CASE ~MakesNew(r)
    <3>1. Held(r) \in Objects  BY <1>8, ElementOfSeq, LenProperties DEF Render, Handles, Types, Held
    <3>2. worker[r].pc = "render" /\ script[r].method = "POST" => Held(r).class \in Selves
      BY <1>8, <2>2, <3>1, StyleFacts DEF Render, MakesNew, Objects
    <3>3. QED  BY <1>8, <2>0, <2>2, <3>2, GotoMoves DEF Render, Does, Kinds, TreeKinds, Writes
  <2>3. QED  BY <2>1, <2>2
<1>9. CASE FinishGet(r)
  <2>1. PICK code \in Codes : Answer(r, code)  BY <1>9 DEF FinishGet, Types, Workers
  <2>2. worker[r].pc = "finish" /\ Still /\ script' = script /\ script[r].method = "GET"  BY <1>9 DEF FinishGet
  <2>3. QED  BY <2>1, <2>2, CodeMoves DEF Does, Kinds, TreeKinds, Quits, Answer
<1>10. CASE FinishPut(r)
  BY <1>10, CodeMoves DEF FinishPut, Does, Kinds, TreeKinds, Quits, Answer
<1>11. CASE FinishAdd(r)
  <2> DEFINE code == IF worker[r].code # "none" THEN worker[r].code ELSE "CREATED"
  <2>1. code \in Codes /\ Answer(r, code)  BY <1>11 DEF FinishAdd, Types, Workers
  <2>2. Moves(r) /\ Keeps(r) /\ worker'[r].pc = "done" /\ worker'[r].code = code
    <3> HIDE DEF code
    <3>1. QED  BY <2>1, CodeMoves DEF Answer
  <2>3. QED  BY <1>11, <2>2 DEF FinishAdd, Does, Kinds, TreeKinds, Puts
<1>12. CASE FinishEdit(r)
  <2> DEFINE code == IF worker[r].code # "none" THEN worker[r].code ELSE "CREATED"
  <2>1. worker[r].code \in Codes  BY DEF Types, Workers
  <2>2. CASE Style(Held(r).class, "POST") \in {"advanced", "directory"}
    <3>1. Still /\ Answer(r, code) /\ code \in Codes /\ script' = script /\ worker[r].pc = "finish" /\ ~worker[r].create
      BY <1>12, <2>1, <2>2 DEF FinishEdit
    <3>2. code \in Success => worker[r].code \in Success \cup {"none"}  OBVIOUS
    <3>3. Held(r).class # "basic"  BY <2>2, StyleFacts
    <3> HIDE DEF code
    <3>4. Moves(r) /\ Keeps(r) /\ worker'[r].pc = "done" /\ worker'[r].code = code
      <4>1. "done" \in Pcs  OBVIOUS
      <4> HIDE DEF Pcs, Codes
      <4>2. QED  BY <3>1, <4>1, CodeMoves, ZenonT(60) DEF Answer
    <3>5. QED  BY <3>1, <3>2, <3>3, <3>4 DEF Does, Kinds, TreeKinds, Quits
  <2>3. CASE Style(Held(r).class, "POST") \notin {"advanced", "directory"}
    <3>1. PICK c \in Codes : Answer(r, c)  BY <1>12, <2>3 DEF FinishEdit
    <3>2. Moves(r) /\ Keeps(r) /\ worker'[r].pc = "done"  BY <3>1, CodeMoves DEF Answer
    <3>3. Held(r).class # "rd"  BY <2>3, StyleFacts
    <3>4. QED  BY <1>12, <2>3, <3>2, <3>3 DEF FinishEdit, Does, Kinds, TreeKinds, Puts, Edited
  <2>4. QED  BY <2>2, <2>3
<1>13. CASE FinishDelete(r)
  <2>1. CASE worker[r].code # "none" /\ Answer(r, worker[r].code) /\ UNCHANGED tree
    <3>1. worker[r].code \in Codes  BY DEF Types, Workers
    <3>2. QED  BY <1>0, <1>13, <2>1, <3>1, CodeMoves DEF FinishDelete, Does, Kinds, TreeKinds, Quits, Answer
  <2>2. CASE Path(r) \notin DOMAIN tree /\ Die(r) /\ UNCHANGED tree
    BY <1>13, <2>2, GotoMoves DEF FinishDelete, Does, Kinds, TreeKinds, Dies, Die
  <2>3. CASE tree' = [p \in DOMAIN tree \ {Path(r)} |-> tree[p]] /\ Answer(r, "DELETED")
    <3>1. Moves(r) /\ Keeps(r) /\ worker'[r].pc = "done" /\ worker'[r].code = "DELETED"  BY <2>3, CodeMoves DEF Answer
    <3>2. QED  BY <1>13, <2>3, <3>1 DEF FinishDelete, Does, Kinds, TreeKinds, Removes
  <2>4. QED  BY <1>13, <2>1, <2>2, <2>3 DEF FinishDelete
<1>14. CASE Discover(r)
  <2>1. CASE Answer(r, "CONTENT")
    BY <1>14, <2>1, CodeMoves DEF Discover, Does, Kinds, TreeKinds, Quits, Answer
  <2>2. CASE \E p \in worker[r].keys : p \in DOMAIN tree /\ worker' = [worker EXCEPT ![r].keys = @ \ {p}]
    <3>1. PICK p \in worker[r].keys : worker' = [worker EXCEPT ![r].keys = @ \ {p}]  BY <2>2
    <3> DEFINE w == [worker[r] EXCEPT !.keys = worker[r].keys \ {p}]
    <3>2. worker[r] \in Workers  BY DEF Types
    <3>3. w \in Workers /\ worker' = [worker EXCEPT ![r] = w]  BY <3>1, <3>2 DEF Workers, Types
    <3>4. w.pc = worker[r].pc /\ w.object = worker[r].object /\ w.create = worker[r].create
          /\ w.keys \subseteq worker[r].keys /\ w.met = worker[r].met  BY <3>2 DEF Workers
    <3> HIDE DEF w
    <3>5. Moves(r) /\ worker'[r].pc = worker[r].pc /\ Keeps(r) /\ worker'[r].keys \subseteq worker[r].keys
      BY <3>3, <3>4 DEF Moves, Types
    <3>6. QED  BY <1>14, <3>5 DEF Discover, Does, Kinds, TreeKinds, Looks
  <2>3. CASE \E p \in worker[r].keys : p \notin DOMAIN tree /\ Die(r)
    BY <1>14, <2>3, GotoMoves DEF Discover, Does, Kinds, TreeKinds, Dies, Die
  <2>4. QED  BY <1>14, <2>1, <2>2, <2>3 DEF Discover
<1>4. CASE RoutePost(r)
  <2> DEFINE w == [worker[r] EXCEPT !.pc = "post", !.keys = {Above(Path(r))}, !.create = (Above(Path(r)) # Path(r))]
  <2>1. Above(Path(r)) \in Seq(Segments)  BY <1>0, AboveIs, PathType DEF RootStands
  <2>2. worker[r] \in Workers  BY DEF Types
  <2>3. w \in Workers /\ worker' = [worker EXCEPT ![r] = w]  BY <1>4, <2>1, <2>2 DEF Workers, Types, RoutePost
  <2>4. /\ w.pc = "post" /\ w.keys = {Above(Path(r))} /\ w.create = (Above(Path(r)) # Path(r))
        /\ w.object = worker[r].object /\ w.met = worker[r].met
    BY <2>2 DEF Workers
  <2> HIDE DEF w
  <2>5. /\ Moves(r) /\ worker'[r].pc = "post" /\ worker'[r].keys = {Above(Path(r))}
        /\ worker'[r].create = (Above(Path(r)) # Path(r))
    BY <2>3, <2>4 DEF Moves, Types
  <2>6. QED  BY <1>4, <2>5 DEF RoutePost, Does, Kinds, TreeKinds, Posts
<1>15. CASE GetUnacceptable(r)
  BY <1>15, CodeMoves DEF GetUnacceptable, Does, Kinds, TreeKinds, Quits, Answer
<1>16. QED
  BY <1>1, <1>2, <1>3, <1>4, <1>5, <1>6, <1>7, <1>8, <1>9, <1>10, <1>11, <1>12, <1>13, <1>14, <1>15 DEF TreeStep

\* A worker whose handler has its result finishes, and keeps what it holds.
LEMMA ResultMoves ==
  ASSUME Types, NEW r \in Rs, NEW code \in Codes, Result(r, code)
  PROVE  Moves(r) /\ Keeps(r) /\ worker'[r].pc = "finish" /\ worker'[r].code = code
<1>1. "finish" \in Pcs  BY DEF Pcs
<1>2. worker' = [worker EXCEPT ![r].pc = "finish", ![r].code = code]  BY DEF Result
<1>3. QED  BY <1>1, <1>2, CodeMoves DEF Keeps

\* So is a step of the directory's handlers.
LEMMA HandlerIs == ASSUME Types, NEW r \in Rs, Handler(r) PROVE Does(r)
<1> USE DEF Active, Still, Keeps, Turns, Pcs, Codes, Success
<1>0. script[r].path = Rd => Path(r) = Rd  BY DEF Path
<1>1. CASE RegisterRefused(r)
  BY <1>0, <1>1, CodeMoves DEF RegisterRefused, Registers, Calls, Result, Does, Kinds, TreeKinds, Stores
<1>2. CASE RegisterId(r)
  BY <1>0, <1>2, GotoMoves DEF RegisterId, Registers, Calls, Does, Kinds, TreeKinds, Stores
<1>3. CASE RegisterInsert(r)
  <2>1. PICK code \in Codes : Result(r, code)  BY <1>3 DEF RegisterInsert
  <2>2. Moves(r) /\ Keeps(r) /\ worker'[r].pc = "finish"  BY <2>1, ResultMoves
  <2>3. QED  BY <1>3, <2>2 DEF RegisterInsert, Does, Kinds, TreeKinds, Stores
<1>4. CASE RegisterUnparsed(r)
  BY <1>4, CodeMoves DEF RegisterUnparsed, Result, Does, Kinds, TreeKinds, Stores
<1>5. CASE Unreachable(r)
  BY <1>5, CodeMoves DEF Unreachable, Searches, Calls, Result, Does, Kinds, TreeKinds, Stores
<1>6. CASE Update(r)
  <2>1. Result(r, "CHANGED") /\ Named(r) # {}  BY <1>6 DEF Update
  <2>2. Moves(r) /\ Keeps(r) /\ worker'[r].pc = "finish"  BY <2>1, ResultMoves
  <2>3. script[r].method = "POST" /\ Path(r) # Rd => Named(r) = {}  BY DEF Named, Path
  <2>4. QED  BY <1>6, <2>1, <2>2, <2>3 DEF Update, Calls, Does, Kinds, TreeKinds, Stores
<1>7. CASE Delete(r)
  <2>1. PICK code \in Codes : Result(r, code)  BY <1>7 DEF Delete
  <2>2. Moves(r) /\ Keeps(r) /\ worker'[r].pc = "finish"  BY <2>1, ResultMoves
  <2>3. QED  BY <1>7, <2>2 DEF Delete, Calls, Does, Kinds, TreeKinds, Stores
<1>8. CASE NotForAll(r)
  BY <1>8, CodeMoves DEF NotForAll, Calls, Answer, Does, Kinds, TreeKinds, Quits
<1>9. CASE Unacceptable(r)
  BY <1>9, CodeMoves DEF Unacceptable, Searches, Calls, Result, Does, Kinds, TreeKinds, Stores
<1>10. CASE Search(r)
  BY <1>10, CodeMoves DEF Search, Searches, Calls, Result, Does, Kinds, TreeKinds, Stores
<1>11. CASE RegisterWithoutBody(r)
  BY <1>11, GotoMoves DEF RegisterWithoutBody, Registers, Calls, Die, Does, Kinds, TreeKinds, Dies, Empty
<1>12. CASE RegisterUnformatted(r)
  BY <1>0, <1>12, CodeMoves DEF RegisterUnformatted, Registers, Calls, Result, Does, Kinds, TreeKinds, Stores
<1>13. CASE NoneNamed(r)
  BY <1>13, CodeMoves DEF NoneNamed, Calls, Result, Does, Kinds, TreeKinds, Stores
<1>14. QED
  BY <1>1, <1>2, <1>3, <1>4, <1>5, <1>6, <1>7, <1>8, <1>9, <1>10, <1>11, <1>12, <1>13 DEF Handler

-----------------------------------------------------------------------------
\* A handler writes to the resource it is called for, and only there.
LEMMA HandledIs ==
  ASSUME Types, NEW r \in Rs, worker[r].object \in DOMAIN object
  PROVE  /\ Handled(r) \in Seq(Objects) /\ DOMAIN Handled(r) = DOMAIN object
         /\ \A y \in DOMAIN object :
              /\ Handled(r)[y].class = object[y].class /\ Handled(r)[y].path = object[y].path
              /\ Handled(r)[y].etag = IF y = worker[r].object /\ Counts(r) THEN object[y].etag + 1 ELSE object[y].etag
              /\ Handled(r)[y].payload = IF y = worker[r].object /\ script[r].method \notin {"GET", "DELETE"}
                                         THEN r ELSE object[y].payload
<1> DEFINE x == worker[r].object
           e == IF Counts(r) THEN object[x].etag + 1 ELSE object[x].etag
           o == [object[x] EXCEPT !.payload = r, !.etag = e]
<1>1. object[x] \in Objects /\ x \in 1..Len(object) /\ Len(object) \in Nat /\ DOMAIN object = 1..Len(object)
  BY ElementOfSeq, LenProperties DEF Types
<1>2. r \in Nat  BY LenProperties DEF Types, Rs
<1>0. object \in Seq(Objects)  BY DEF Types
<1>3. o \in Objects /\ o.class = object[x].class /\ o.path = object[x].path /\ o.etag = e /\ o.payload = r
  <2>1. e \in Int  BY <1>1 DEF Objects
  <2> HIDE DEF e
  <2>2. QED  BY <1>1, <1>2, <2>1 DEF Objects
<1>4. CASE script[r].method \in {"GET", "DELETE"}
  <2>1. Handled(r) = object /\ ~Counts(r)  BY <1>4 DEF Handled, Counts
  <2>2. QED  BY <1>4, <2>1 DEF Types
<1>5. CASE script[r].method \notin {"GET", "DELETE"}
  <2>1. Handled(r) = [object EXCEPT ![x] = o]  BY <1>1, <1>5 DEF Handled, Types
  <2> HIDE DEF o
  <2>2. /\ Handled(r) \in Seq(Objects) /\ Len(Handled(r)) = Len(object)
        /\ \A y \in 1..Len(object) : Handled(r)[y] = IF y = x THEN o ELSE object[y]
    BY <1>0, <1>1, <1>3, <2>1, ExceptSeq
  <2>3. DOMAIN Handled(r) = 1..Len(object)  BY <2>2, LenProperties
  <2>4. QED  BY <1>1, <1>3, <1>5, <2>2, <2>3
<1>6. QED  BY <1>4, <1>5

\* Putting a resource into the tree moves no other.
LEMMA PlacedIs ==
  ASSUME Types, NEW p \in Seq(Segments), NEW x \in DOMAIN object, Placed(p, x)
  PROVE  /\ tree' \in [DOMAIN tree' -> DOMAIN object] /\ DOMAIN tree' = DOMAIN tree \cup {p}
         /\ tree'[p] = x /\ \A q \in DOMAIN tree : q # p => tree'[q] = tree[q]
BY DEF Placed, Types

\* A resource takes another path.
LEMMA AtIs ==
  ASSUME Types, NEW p \in Seq(Segments), NEW x \in DOMAIN object, object' = [object EXCEPT ![x].path = p]
  PROVE  /\ object' \in Seq(Objects) /\ DOMAIN object' = DOMAIN object
         /\ \A y \in DOMAIN object : /\ object'[y].class = object[y].class /\ object'[y].etag = object[y].etag
                                     /\ object'[y].payload = object[y].payload
                                     /\ object'[y].path = IF y = x THEN p ELSE object[y].path
<1> DEFINE o == [object[x] EXCEPT !.path = p]
<1>1. object[x] \in Objects /\ x \in 1..Len(object) /\ Len(object) \in Nat /\ DOMAIN object = 1..Len(object)
  BY ElementOfSeq, LenProperties DEF Types
<1>2. o \in Objects /\ o.class = object[x].class /\ o.path = p /\ o.etag = object[x].etag /\ o.payload = object[x].payload
  BY <1>1 DEF Objects
<1>3. object' = [object EXCEPT ![x] = o]  BY <1>1 DEF Types
<1> HIDE DEF o
<1>4. /\ object' \in Seq(Objects) /\ Len(object') = Len(object)
      /\ \A y \in 1..Len(object) : object'[y] = IF y = x THEN o ELSE object[y]
  <2>1. object \in Seq(Objects)  BY DEF Types
  <2>2. QED  BY <1>1, <1>2, <1>3, <2>1, ExceptSeq
<1>5. DOMAIN object' = 1..Len(object)  BY <1>4, LenProperties
<1>6. QED  BY <1>1, <1>2, <1>4, <1>5

\* A handler makes a new resource.
LEMMA MadeIs ==
  ASSUME Types, NEW r \in Rs, object' = Append(object, NewObject("basic", Root, r))
  PROVE  /\ object' \in Seq(Objects) /\ DOMAIN object' = DOMAIN object \cup {Len(object) + 1}
         /\ Len(object) + 1 \notin DOMAIN object
         /\ \A y \in DOMAIN object : object'[y] = object[y]
         /\ object'[Len(object) + 1] = NewObject("basic", Root, r)
<1>1. r \in Nat /\ Root \in Seq(Segments)  BY LenProperties, EmptySeq DEF Types, Rs, Root
<1>2. NewObject("basic", Root, r) \in Objects
  <2>1. NewObject("basic", Root, r) = [class |-> "basic", path |-> Root, payload |-> r, etag |-> None]  BY DEF NewObject
  <2>2. None \in Int  BY DEF None
  <2>3. "basic" \in Classes  BY DEF Classes
  <2>4. QED  BY <1>1, <2>1, <2>2, <2>3 DEF Objects
<1>3. QED  BY <1>2, AppendProperties, LenProperties DEF Types

-----------------------------------------------------------------------------
Effects ==
  /\ object' \in Seq(Objects) /\ DOMAIN object \subseteq DOMAIN object'
  /\ \A y \in DOMAIN object : object'[y].class = object[y].class
  /\ tree' \in [DOMAIN tree' -> DOMAIN object'] /\ DOMAIN tree' \subseteq Seq(Segments)

\* Every object is one.
LEMMA ObjectType == ASSUME Types, NEW y \in DOMAIN object PROVE object[y] \in Objects /\ object[y].path \in Seq(Segments)
<1>1. object[y] \in Objects  BY ElementOfSeq, LenProperties DEF Types
<1>2. QED  BY <1>1 DEF Objects

\* No step changes what a resource is.
LEMMA StillEffects == ASSUME Types, Still PROVE Effects
BY DEF Still, Effects, Types

LEMMA DoesEffects ==
  ASSUME Types, NEW r \in Rs, Does(r)
  PROVE  Effects /\ (Handles(r)' => worker'[r].object \in DOMAIN object')
<1>0. Handles(r) => worker[r].object \in DOMAIN object  BY DEF Types
<1>1. Path(r) \in Seq(Segments)  BY PathType
<1>2. object \in Seq(Objects) /\ tree \in [DOMAIN tree -> DOMAIN object] /\ DOMAIN tree \subseteq Seq(Segments)
      /\ \A y \in DOMAIN object : object[y] \in Objects
  BY ElementOfSeq, LenProperties DEF Types
<1>3. ASSUME Still, Keeps(r), Handles(r)' => Handles(r)  PROVE Effects /\ (Handles(r)' => worker'[r].object \in DOMAIN object')
  BY <1>0, <1>3, StillEffects DEF Still, Keeps
<1>4. CASE Quits(r) \/ Dies(r) \/ Looks(r) \/ Waits(r) \/ Stores(r)
  <2>1. Handles(r)' => Handles(r)  BY <1>4 DEF Quits, Dies, Looks, Waits, Stores, Turns, Handles
  <2>2. QED  BY <1>3, <1>4, <2>1 DEF Quits, Dies, Looks, Waits, Stores
<1>5. CASE Gets(r)
  BY <1>2, <1>5, StillEffects DEF Gets, Still
<1>6. CASE Posts(r)
  BY <1>6, StillEffects DEF Posts, Handles, Turns
<1>7. CASE Takes(r)
  BY <1>2, <1>7, StillEffects DEF Takes, Still
<1>8. CASE Makes(r)
  BY <1>2, <1>8, MadeIs DEF Makes, Effects
<1>9. CASE Writes(r)
  BY <1>0, <1>2, <1>9, HandledIs DEF Writes, Keeps, Effects, Handles
<1>10. CASE Puts(r)
  <2>1. worker[r].object \in DOMAIN object  BY <1>0, <1>10 DEF Puts, Turns, Handles
  <2>2. ~Handles(r)'  BY <1>10 DEF Puts, Turns, Handles
  <2>3. Held(r).path \in Seq(Segments)  BY <1>2, <2>1 DEF Held, Objects
  <2>4. CASE At(Path(r), worker[r].object)
    <3>1. Placed(Path(r), worker[r].object) /\ object' = [object EXCEPT ![worker[r].object].path = Path(r)]  BY <2>4 DEF At
    <3>2. /\ tree' \in [DOMAIN tree' -> DOMAIN object] /\ DOMAIN tree' = DOMAIN tree \cup {Path(r)}
      BY <1>1, <2>1, <3>1, PlacedIs
    <3>3. /\ object' \in Seq(Objects) /\ DOMAIN object' = DOMAIN object
          /\ \A y \in DOMAIN object : object'[y].class = object[y].class
      BY <1>1, <2>1, <3>1, AtIs
    <3>4. QED  BY <1>1, <1>2, <2>2, <3>2, <3>3 DEF Effects
  <2>5. CASE Placed(Held(r).path, worker[r].object) /\ UNCHANGED object
    <3>1. /\ tree' \in [DOMAIN tree' -> DOMAIN object] /\ DOMAIN tree' = DOMAIN tree \cup {Held(r).path}
      BY <2>1, <2>3, <2>5, PlacedIs
    <3>2. QED  BY <1>2, <2>2, <2>3, <2>5, <3>1 DEF Effects
  <2>6. QED  BY <1>10, <2>4, <2>5 DEF Puts
<1>11. CASE Removes(r)
  BY <1>2, <1>11 DEF Removes, Turns, Handles, Effects
<1>12. QED
  BY <1>4, <1>5, <1>6, <1>7, <1>8, <1>9, <1>10, <1>11 DEF Does, Kinds, TreeKinds

\* The steps of the kinds keep the types.
LEMMA DoesTypes == ASSUME Types, NEW r \in Rs, Does(r) PROVE Types'
<1>1. Effects /\ (Handles(r)' => worker'[r].object \in DOMAIN object')  BY DoesEffects
<1>2. Moves(r) /\ script' = script /\ Rs' = Rs  BY DEF Does, Rs
<1>3. ASSUME NEW q \in Rs, Handles(q)'  PROVE worker'[q].object \in DOMAIN object'
  <2>1. CASE q = r  BY <1>1, <1>3, <2>1
  <2>2. CASE q # r  BY <1>1, <1>2, <1>3, <2>2 DEF Moves, Handles, Types, Effects
  <2>3. QED  BY <2>1, <2>2
<1>4. QED  BY <1>1, <1>2, <1>3 DEF Types, Moves, Effects

\* What starting a worker changes.
LEMMA ReceiveFacts ==
  ASSUME Types, NEW r \in Rs, Receive(r)
  PROVE  /\ Still /\ script' = script /\ worker' \in [Rs -> Workers] /\ worker[r].pc = "new"
         /\ worker'[r].pc = "route" /\ worker'[r].met = {q \in Rs : Active(q)}
         /\ \A q \in Rs : /\ q # r => worker'[q].pc = worker[q].pc
                          /\ worker'[q].object = worker[q].object /\ worker'[q].code = worker[q].code
                          /\ worker'[q].create = worker[q].create /\ worker'[q].keys = worker[q].keys
                          /\ worker[q].met \subseteq worker'[q].met \/ q = r
                          /\ q # r => worker'[q].met = worker[q].met \cup (IF Active(q) THEN {r} ELSE {})
<1> DEFINE others == {q \in Rs : Active(q)}
           w == [worker[r] EXCEPT !.pc = "route", !.met = others]
           v(q) == [worker[q] EXCEPT !.met = @ \cup {r}]
<1>1. Rs \subseteq Nat /\ r \in Nat /\ \A q \in Rs : worker[q] \in Workers  BY LenProperties DEF Types, Rs
<1>2. others \in SUBSET Nat  BY <1>1
<1>3. worker[r].pc = "new" /\ ~Active(r) /\ Still /\ script' = script
      /\ worker' = [q \in Rs |-> IF q = r THEN w ELSE IF q \in others THEN v(q) ELSE worker[q]]
  BY DEF Receive, Active, Still
<1>4. w \in Workers /\ w.pc = "route" /\ w.met = others /\ w.object = worker[r].object /\ w.code = worker[r].code
      /\ w.create = worker[r].create /\ w.keys = worker[r].keys
  <2> HIDE DEF others
  <2>1. QED  BY <1>1, <1>2 DEF Workers, Pcs
<1>5. ASSUME NEW q \in Rs
      PROVE  /\ v(q) \in Workers /\ v(q).pc = worker[q].pc /\ v(q).met = worker[q].met \cup {r}
             /\ v(q).object = worker[q].object /\ v(q).code = worker[q].code
             /\ v(q).create = worker[q].create /\ v(q).keys = worker[q].keys
  BY <1>1, <1>5 DEF Workers
<1> HIDE DEF w, v
<1>6. worker' \in [Rs -> Workers]  BY <1>1, <1>3, <1>4, <1>5
<1>7. ASSUME NEW q \in Rs
      PROVE  /\ q # r => worker'[q].pc = worker[q].pc
             /\ worker'[q].object = worker[q].object /\ worker'[q].code = worker[q].code
             /\ worker'[q].create = worker[q].create /\ worker'[q].keys = worker[q].keys
             /\ worker[q].met \subseteq worker'[q].met \/ q = r
             /\ q # r => worker'[q].met = worker[q].met \cup (IF Active(q) THEN {r} ELSE {})
  BY <1>3, <1>4, <1>5
<1>8. QED  BY <1>3, <1>4, <1>6, <1>7

LEMMA ReceiveTypes == ASSUME Types, NEW r \in Rs, Receive(r) PROVE Types'
<1>1. Still /\ Effects /\ script' = script /\ Rs' = Rs /\ worker' \in [Rs -> Workers]
  BY ReceiveFacts, StillEffects DEF Rs
<1>2. ASSUME NEW q \in Rs, Handles(q)'  PROVE Handles(q) /\ worker'[q].object = worker[q].object
  BY <1>2, ReceiveFacts DEF Handles
<1>3. QED  BY <1>1, <1>2 DEF Types, Effects, Still

-----------------------------------------------------------------------------
\* They keep the root.
LEMMA DoesRoot == ASSUME Types, RootStands, NEW r \in Rs, Does(r) PROVE RootStands'
<1>1. Effects /\ Moves(r) /\ script' = script /\ Rs' = Rs /\ Active(r)  BY DoesEffects DEF Does, Rs
<1>2. \A q \in Rs : Path(q)' = Path(q)  BY <1>1 DEF Path
<1>3. tree[Root] \in DOMAIN object  BY DEF Types, RootStands
<1>4. worker[r].pc = "finish" => Path(r) # Root  BY DEF RootStands, Handles
<1>5. Root \in DOMAIN tree' /\ tree'[Root] = tree[Root]
  <2>1. CASE tree' = tree  BY <2>1 DEF RootStands
  <2>2. CASE Puts(r)
    <3>1. worker[r].object \in DOMAIN object  BY <2>2 DEF Puts, Turns, Handles, Types
    <3>2. \A y \in DOMAIN object : object[y].path \in Seq(Segments)  BY ObjectType
    <3>3. \E p \in Seq(Segments) : p # Root /\ Placed(p, worker[r].object)
      BY <1>4, <2>2, <3>1, <3>2, PathType DEF Puts, Turns, At, Held
    <3>4. QED  BY <3>1, <3>3, PlacedIs DEF RootStands
  <2>3. CASE Removes(r)
    BY <1>4, <2>3 DEF Removes, Turns, RootStands
  <2>4. QED
    BY <2>1, <2>2, <2>3 DEF Does, Kinds, TreeKinds, Still, Quits, Dies, Looks, Gets, Posts, Takes, Waits, Stores, Makes, Writes
<1>6. object'[tree'[Root]].class = "root"  BY <1>1, <1>3, <1>5 DEF Effects, RootStands
<1>7. ASSUME NEW q \in Rs, worker'[q].pc = "post"
      PROVE  script[q].method = "POST" /\ \E p \in worker'[q].keys : worker'[q].keys = {p} /\ IsPrefix(p, Path(q)) /\ worker'[q].create = (p # Path(q))
  <2>1. CASE q # r  BY <1>1, <1>7, <2>1 DEF Moves, RootStands
  <2>2. CASE q = r
    <3>1. Posts(r)
      BY <1>7, <2>2 DEF Does, Kinds, TreeKinds, Turns, Quits, Dies, Looks, Gets, Takes, Waits, Stores, Makes, Writes, Puts, Removes
    <3>2. IsPrefix(Above(Path(r)), Path(r))  BY AboveIs, PathType DEF RootStands
    <3>3. QED  BY <2>2, <3>1, <3>2 DEF Posts
  <2>3. QED  BY <2>1, <2>2
<1>8. ASSUME NEW q \in Rs, Handles(q)', Path(q) = Root  PROVE worker'[q].pc = "render" /\ Held(q)'.class = "root"
  <2>1. CASE q # r
    <3>1. Handles(q) /\ worker'[q] = worker[q] /\ worker[q].object \in DOMAIN object
      BY <1>1, <1>8, <2>1 DEF Moves, Handles, Types
    <3>2. QED  BY <1>1, <1>8, <3>1 DEF RootStands, Held, Effects
  <2>2. CASE q = r
    <3>1. ~Quits(r) /\ ~Dies(r) /\ ~Looks(r) /\ ~Posts(r) /\ ~Puts(r) /\ ~Removes(r)
      BY <1>8, <2>2 DEF Quits, Dies, Looks, Posts, Puts, Removes, Turns, Handles
    <3>2. ~Waits(r) /\ ~Stores(r) /\ ~Makes(r) /\ ~Writes(r)
      BY <1>8, <2>2 DEF Waits, Stores, Makes, Writes, Turns, Handles, RootStands
    <3>3. CASE Gets(r)
      BY <1>8, <2>2, <3>3 DEF Gets, Turns, Still, Held, RootStands
    <3>4. CASE Takes(r)
      <4>1. PICK k \in worker[r].keys : worker[r].keys = {k} /\ IsPrefix(k, Root) /\ worker[r].create = (k # Root)
        BY <1>8, <2>2, <3>4 DEF Takes, Turns, RootStands
      <4>2. k = Root
        <5>1. k \in Seq(Segments)  BY DEF Types, Workers
        <5>2. QED  BY <4>1, <5>1, PrefixOfEmpty DEF Root
      <4>3. QED  BY <1>8, <2>2, <3>4, <4>1, <4>2 DEF Takes, Turns, Still, Held, RootStands
    <3>5. QED  BY <3>1, <3>2, <3>3, <3>4 DEF Does, Kinds, TreeKinds
  <2>3. QED  BY <2>1, <2>2
<1>9. ASSUME NEW q \in Rs, worker'[q].create  PROVE worker'[q].pc \notin {"new", "route"}
  <2>1. CASE q # r  BY <1>1, <1>9, <2>1 DEF Moves, RootStands
  <2>2. CASE q = r
    BY <2>2 DEF Does, Kinds, TreeKinds, Turns, Quits, Dies, Looks, Gets, Posts, Takes, Waits, Stores, Makes, Writes, Puts, Removes
  <2>3. QED  BY <2>1, <2>2
<1>10. QED  BY <1>1, <1>2, <1>5, <1>6, <1>7, <1>8, <1>9 DEF RootStands

LEMMA ReceiveRoot == ASSUME Types, RootStands, NEW r \in Rs, Receive(r) PROVE RootStands'
<1>1. Still /\ script' = script /\ Rs' = Rs  BY ReceiveFacts DEF Rs
<1>2. \A q \in Rs : Path(q)' = Path(q)  BY <1>1 DEF Path
<1>3. ASSUME NEW q \in Rs, worker'[q].pc = "post"
      PROVE  script[q].method = "POST" /\ \E p \in worker'[q].keys : worker'[q].keys = {p} /\ IsPrefix(p, Path(q)) /\ worker'[q].create = (p # Path(q))
  BY <1>3, ReceiveFacts DEF RootStands
<1>4. ASSUME NEW q \in Rs, Handles(q)', Path(q) = Root  PROVE worker'[q].pc = "render" /\ Held(q)'.class = "root"
  BY <1>1, <1>4, ReceiveFacts DEF RootStands, Handles, Held, Still
<1>5. ASSUME NEW q \in Rs, worker'[q].create  PROVE worker'[q].pc \notin {"new", "route"}
  BY <1>5, ReceiveFacts DEF RootStands
<1>6. QED  BY <1>1, <1>2, <1>3, <1>4, <1>5 DEF RootStands, Still

-----------------------------------------------------------------------------
\* They keep who has met whom.
LEMMA DoesMet == ASSUME Types, Met, NEW r \in Rs, Does(r) PROVE Met'
<1>1. Moves(r) /\ Active(r) /\ Rs' = Rs  BY DEF Does, Rs
<1>2. \A q \in Rs : worker'[q].met = worker[q].met /\ (Active(q)' => Active(q))  BY <1>1 DEF Moves, Active
<1>3. QED  BY <1>1, <1>2 DEF Met

LEMMA ReceiveMet == ASSUME Types, Met, NEW r \in Rs, Receive(r) PROVE Met'
<1>1. Rs' = Rs /\ worker'[r].met = {q \in Rs : Active(q)} /\ ~Active(r)  BY ReceiveFacts DEF Rs, Active
<1>2. ASSUME NEW q \in Rs, q # r
      PROVE  worker'[q].met = worker[q].met \cup (IF Active(q) THEN {r} ELSE {}) /\ (Active(q)' <=> Active(q))
  BY <1>2, ReceiveFacts DEF Active
<1>3. QED  BY <1>1, <1>2 DEF Met

\* They take away what a worker has found only where a DELETE crosses it.
LEMMA DoesFinds == ASSUME Types, RootStands, Met, Finds, NEW r \in Rs, Does(r) PROVE Finds'
<1>1. Moves(r) /\ Active(r) /\ Rs' = Rs /\ script' = script  BY DEF Does, Rs
<1>2. \A q \in Rs : Path(q)' = Path(q) /\ Crossed(q)' = Crossed(q) /\ Empty(q)' = Empty(q)
  BY <1>1 DEF Path, Crossed, Moves, Empty
<1>3. ASSUME NEW q \in Rs, q # r, Active(q), NEW p \in DOMAIN tree  PROVE p \in DOMAIN tree' \/ Crossed(q)
  <2>1. CASE Removes(r)
    <3>1. r \in worker[q].met /\ script[r].method = "DELETE"  BY <1>1, <1>3, <2>1 DEF Met, Removes
    <3>2. QED  BY <3>1 DEF Crossed
  <2>2. CASE ~Removes(r)
    <3>1. DOMAIN tree \subseteq DOMAIN tree'
      BY <2>2 DEF Does, Kinds, TreeKinds, Still, Quits, Dies, Looks, Gets, Posts, Takes, Waits, Stores, Makes, Writes, Puts, At, Placed
    <3>2. QED  BY <3>1
  <2>3. QED  BY <2>1, <2>2
<1>4. ASSUME NEW q \in Rs, q # r
      PROVE  /\ worker'[q].pc \in {"post", "discover"} => \A p \in worker'[q].keys : p \in DOMAIN tree' \/ Crossed(q)
             /\ Handles(q)' /\ script[q].method = "DELETE" => Path(q) \in DOMAIN tree' \/ Crossed(q)
             /\ worker'[q].pc = "dead" => Empty(q) \/ Crossed(q)
  <2>1. worker'[q] = worker[q]  BY <1>1, <1>4 DEF Moves
  <2>2. worker[q].pc \in {"post", "discover"} \/ Handles(q) => Active(q)  BY DEF Handles, Active
  <2>3. QED  BY <1>3, <1>4, <2>1, <2>2 DEF Finds, Handles
<1>5. worker'[r].pc \in {"post", "discover"} => \A p \in worker'[r].keys : p \in DOMAIN tree' \/ Crossed(r)
  <2>1. CASE Posts(r)
    BY <2>1, AboveIs, PathType DEF Posts, Still, RootStands
  <2>2. CASE Looks(r)
    BY <2>2 DEF Looks, Still, Turns, Finds
  <2>3. QED
    BY <2>1, <2>2 DEF Does, Kinds, TreeKinds, Turns, Quits, Dies, Gets, Takes, Waits, Stores, Makes, Writes, Puts, Removes
<1>6. ASSUME Handles(r)', script[r].method = "DELETE"  PROVE Path(r) \in DOMAIN tree' \/ Crossed(r)
  <2>1. CASE Gets(r)  BY <2>1 DEF Gets, Still
  <2>2. CASE Handles(r) /\ tree' = tree  BY <1>6, <2>2 DEF Finds
  <2>3. CASE Takes(r)
    <3>1. script[r].method = "POST"  BY <2>3 DEF Takes, Turns, RootStands
    <3>2. QED  BY <1>6, <3>1
  <2>4. QED
    BY <1>6, <2>1, <2>2, <2>3 DEF Does, Kinds, TreeKinds, Still, Turns, Handles, Quits, Dies, Looks, Posts, Waits, Stores, Makes, Writes, Puts, Removes
<1>7. worker'[r].pc = "dead" => Empty(r) \/ Crossed(r)
  <2>1. CASE Dies(r)
    <3>1. CASE worker[r].pc = "post"
      BY <2>1, <3>1 DEF Dies, Finds, RootStands
    <3>2. CASE worker[r].pc = "discover"
      BY <2>1, <3>2 DEF Dies, Finds
    <3>3. CASE worker[r].pc = "finish" /\ script[r].method = "DELETE" /\ Path(r) \notin DOMAIN tree
      BY <3>3 DEF Finds, Handles
    <3>4. QED  BY <2>1, <3>1, <3>2, <3>3 DEF Dies
  <2>2. QED
    BY <2>1 DEF Does, Kinds, TreeKinds, Turns, Quits, Looks, Gets, Posts, Takes, Waits, Stores, Makes, Writes, Puts, Removes
<1>8. QED
  BY <1>1, <1>2, <1>4, <1>5, <1>6, <1>7 DEF Finds

LEMMA ReceiveFinds == ASSUME Types, Finds, NEW r \in Rs, Receive(r) PROVE Finds'
<1>1. Rs' = Rs /\ script' = script /\ tree' = tree /\ worker[r].pc = "new" /\ worker'[r].pc = "route"
  BY ReceiveFacts DEF Rs, Still
<1>2. ASSUME NEW q \in Rs, q # r
      PROVE  /\ worker'[q].pc = worker[q].pc /\ worker'[q].keys = worker[q].keys /\ (Crossed(q) => Crossed(q)')
             /\ Path(q)' = Path(q) /\ Empty(q)' = Empty(q)
  BY <1>1, <1>2, ReceiveFacts DEF Crossed, Path, Empty
<1>3. QED  BY <1>1, <1>2 DEF Finds, Handles

-----------------------------------------------------------------------------
\* The root counts no states.
LEMMA EtagIsNotRoot ==
  ASSUME NEW i \in DOMAIN Resources, Resources[i].class = "etag"
  PROVE  Resources[i].path # Root
<1>1. PICK j \in DOMAIN Resources : Resources[j] = [class |-> "root", path |-> Root]  BY TreeAssumption
<1>2. i # j  BY <1>1
<1>3. QED  BY <1>1, <1>2, TreeAssumption

\* Who handles a request for such a resource has it.
LEMMA EtagWorker ==
  ASSUME Types, EtagHome, NEW i \in DOMAIN Resources, Resources[i].class = "etag",
         NEW r \in Rs, Path(r) = Resources[i].path, Handles(r)
  PROVE  /\ worker[r].object = i /\ ~worker[r].create /\ worker[r].pc \in {"render", "finish"}
         /\ Held(r).class = "etag" /\ Held(r).path # Root
         /\ worker[r].pc = "finish" => script[r].method # "DELETE"
BY DEF EtagHome, Held

\* They keep its place.
LEMMA DoesHome == ASSUME Types, RootStands, EtagHome, NEW r \in Rs, Does(r) PROVE EtagHome'
<1>1. Effects /\ Moves(r) /\ script' = script /\ Rs' = Rs /\ Active(r)  BY DoesEffects DEF Does, Rs
<1>2. \A q \in Rs : Path(q)' = Path(q)  BY <1>1 DEF Path
<1> SUFFICES ASSUME NEW i \in DOMAIN Resources, Resources[i].class = "etag"
             PROVE LET p == Resources[i].path IN
                   /\ p \in DOMAIN tree' /\ tree'[p] = i
                   /\ i \in DOMAIN object' /\ object'[i].class = "etag" /\ object'[i].path # Root /\ object'[i].etag \in Nat
                   /\ \A x \in DOMAIN object' : object'[x].path = p => x = i
                   /\ \A q \in Rs : Path(q) = p =>
                        /\ worker'[q].pc = "post" => worker'[q].keys = {p} /\ ~worker'[q].create
                        /\ Handles(q)' => /\ worker'[q].object = i /\ ~worker'[q].create /\ worker'[q].pc \in {"render", "finish"}
                                          /\ worker'[q].pc = "finish" => script[q].method # "DELETE"
  BY <1>1, <1>2 DEF EtagHome
<1> DEFINE p == Resources[i].path
<1>3. p # Root /\ p \in Seq(Segments)  BY EtagIsNotRoot DEF EtagHome, Types
<1>4. /\ p \in DOMAIN tree /\ tree[p] = i /\ i \in DOMAIN object /\ object[i].class = "etag" /\ object[i].path # Root
      /\ object[i].etag \in Nat /\ \A x \in DOMAIN object : object[x].path = p => x = i
  BY DEF EtagHome
<1> HIDE DEF p
<1>5. ASSUME Path(r) = p, Handles(r)
      PROVE  /\ worker[r].object = i /\ ~worker[r].create /\ worker[r].pc \in {"render", "finish"}
             /\ Held(r).class = "etag" /\ Held(r).path # Root
             /\ worker[r].pc = "finish" => script[r].method # "DELETE"
  BY <1>5, EtagWorker DEF p
<1> DEFINE Home == /\ p \in DOMAIN tree' /\ tree'[p] = i
                   /\ i \in DOMAIN object' /\ object'[i].class = "etag" /\ object'[i].path # Root /\ object'[i].etag \in Nat
                   /\ \A x \in DOMAIN object' : object'[x].path = p => x = i
<1>6. ASSUME Still  PROVE Home  BY <1>4, <1>6 DEF Still
<1>7. ASSUME Puts(r)  PROVE Home
  <2>1. worker[r].object \in DOMAIN object /\ Handles(r) /\ Path(r) # Root
    BY <1>7 DEF Puts, Turns, Handles, Types, RootStands
  <2>2. CASE (worker[r].create \/ Held(r).path = Root) /\ At(Path(r), worker[r].object)
    <3>1. Path(r) # p  BY <1>5, <2>1, <2>2
    <3>2. Placed(Path(r), worker[r].object) /\ object' = [object EXCEPT ![worker[r].object].path = Path(r)]  BY <2>2 DEF At
    <3>3. p \in DOMAIN tree' /\ tree'[p] = i  BY <1>4, <2>1, <3>1, <3>2, PlacedIs, PathType
    <3>4. /\ DOMAIN object' = DOMAIN object
          /\ \A y \in DOMAIN object : /\ object'[y].class = object[y].class /\ object'[y].etag = object[y].etag
                                      /\ object'[y].path = IF y = worker[r].object THEN Path(r) ELSE object[y].path
      BY <2>1, <3>2, AtIs, PathType
    <3>5. QED  BY <1>4, <2>1, <3>1, <3>3, <3>4
  <2>3. CASE Placed(Held(r).path, worker[r].object) /\ UNCHANGED object
    <3>1. Held(r).path \in Seq(Segments)  BY <2>1, ObjectType DEF Held
    <3>2. Held(r).path = p => worker[r].object = i  BY <1>4, <2>1 DEF Held
    <3>3. p \in DOMAIN tree' /\ tree'[p] = i  BY <1>4, <2>1, <2>3, <3>1, <3>2, PlacedIs
    <3>4. QED  BY <1>4, <2>3, <3>3
  <2>4. QED  BY <1>7, <2>2, <2>3 DEF Puts
<1>8. ASSUME Removes(r)  PROVE Home
  BY <1>4, <1>5, <1>8 DEF Removes, Turns, Handles
<1>9. ASSUME Makes(r)  PROVE Home
  <2>1. /\ DOMAIN object' = DOMAIN object \cup {Len(object) + 1} /\ Len(object) + 1 \notin DOMAIN object
        /\ \A y \in DOMAIN object : object'[y] = object[y]
        /\ object'[Len(object) + 1] = NewObject("basic", Root, r)
    BY <1>9, MadeIs DEF Makes
  <2>2. NewObject("basic", Root, r).path = Root  BY DEF NewObject
  <2>3. tree' = tree  BY <1>9 DEF Makes
  <2>4. QED  BY <1>3, <1>4, <2>1, <2>2, <2>3
<1>10. ASSUME Writes(r)  PROVE Home
  <2>1. worker[r].object \in DOMAIN object  BY <1>10 DEF Writes, Handles, Types
  <2>2. /\ DOMAIN object' = DOMAIN object
        /\ \A y \in DOMAIN object :
             /\ object'[y].class = object[y].class /\ object'[y].path = object[y].path
             /\ object'[y].etag = IF y = worker[r].object /\ Counts(r) THEN object[y].etag + 1 ELSE object[y].etag
    BY <1>10, <2>1, HandledIs DEF Writes
  <2>3. tree' = tree  BY <1>10 DEF Writes
  <2>4. QED  BY <1>4, <2>2, <2>3
<1>11. Home
  BY <1>6, <1>7, <1>8, <1>9, <1>10 DEF Does, Kinds, TreeKinds, Quits, Dies, Looks, Gets, Posts, Takes, Waits, Stores
<1>12. ASSUME NEW q \in Rs, Path(q) = p
       PROVE  /\ worker'[q].pc = "post" => worker'[q].keys = {p} /\ ~worker'[q].create
              /\ Handles(q)' => /\ worker'[q].object = i /\ ~worker'[q].create /\ worker'[q].pc \in {"render", "finish"}
                                /\ worker'[q].pc = "finish" => script[q].method # "DELETE"
  <2>0. worker[q].pc = "post" => worker[q].keys = {p} /\ ~worker[q].create  BY <1>12 DEF EtagHome, p
  <2>1. CASE q # r
    <3>1. worker'[q] = worker[q]  BY <1>1, <2>1 DEF Moves
    <3>2. QED  BY <1>12, <2>0, <3>1 DEF EtagHome, Handles, p
  <2>2. CASE q = r
    <3>1. CASE Posts(r)
      <4>1. Above(p) = p  BY <1>3, <1>4, AboveIs DEF RootStands
      <4>2. QED  BY <1>12, <2>2, <3>1, <4>1 DEF Posts, Turns, Handles
    <3>2. CASE Gets(r)
      BY <1>4, <1>12, <2>2, <3>2 DEF Gets, Turns, Handles, RootStands, Types, Workers
    <3>3. CASE Takes(r)
      BY <1>4, <1>12, <2>0, <2>2, <3>3 DEF Takes, Turns, Handles
    <3>4. CASE Writes(r)
      BY <1>5, <1>12, <2>2, <3>4 DEF Writes, Keeps, Handles
    <3>5. ~Waits(r) /\ ~Makes(r) /\ ~Stores(r)
      BY <1>5, <1>12, <2>2 DEF Waits, Makes, Stores, Turns, Handles
    <3>6. Quits(r) \/ Dies(r) \/ Looks(r) \/ Puts(r) \/ Removes(r) => worker'[r].pc # "post" /\ ~Handles(r)'
      BY DEF Quits, Dies, Looks, Puts, Removes, Turns, Handles
    <3>7. QED
      BY <2>2, <3>1, <3>2, <3>3, <3>4, <3>5, <3>6 DEF Does, Kinds, TreeKinds
  <2>3. QED  BY <2>1, <2>2
<1>13. QED  BY <1>11, <1>12 DEF p

LEMMA ReceiveHome == ASSUME Types, EtagHome, NEW r \in Rs, Receive(r) PROVE EtagHome'
<1>1. Still /\ script' = script /\ Rs' = Rs /\ worker'[r].pc = "route"  BY ReceiveFacts DEF Rs
<1>2. \A q \in Rs : Path(q)' = Path(q)  BY <1>1 DEF Path
<1>3. \A q \in Rs : /\ q # r => worker'[q].pc = worker[q].pc /\ worker'[q].object = worker[q].object
                     /\ worker'[q].create = worker[q].create /\ worker'[q].keys = worker[q].keys
  BY ReceiveFacts
<1>4. QED  BY <1>1, <1>2, <1>3 DEF EtagHome, Still, Handles

-----------------------------------------------------------------------------
\* They never count back.
LEMMA EtagGrows ==
  ASSUME Types, NEW r \in Rs, Does(r), NEW i \in DOMAIN object, object[i].class = "etag", object[i].etag \in Nat
  PROVE  /\ object'[i].etag \in Nat /\ object[i].etag <= object'[i].etag
         /\ Writes(r) /\ worker[r].object = i /\ script[r].method = "POST" => object[i].etag < object'[i].etag
<1>1. CASE object' = object
  <2>1. ~Writes(r) \/ worker[r].object # i \/ script[r].method # "POST"
    <3>1. ASSUME Writes(r), worker[r].object = i, script[r].method = "POST"  PROVE FALSE
      <4>1. object' = Handled(r) /\ Counts(r)  BY <3>1 DEF Writes, Counts, Held
      <4>2. object'[i].etag = object[i].etag + 1  BY <3>1, <4>1, HandledIs
      <4>3. QED  BY <1>1, <4>2
    <3>2. QED  BY <3>1
  <2>2. QED  BY <1>1, <2>1
<1>2. CASE Makes(r)
  BY <1>2, MadeIs DEF Makes, Writes, Keeps, Types
<1>3. CASE Writes(r)
  <2>1. worker[r].object \in DOMAIN object  BY <1>3 DEF Writes, Handles, Types
  <2>2. object'[i].etag = IF i = worker[r].object /\ Counts(r) THEN object[i].etag + 1 ELSE object[i].etag
    BY <1>3, <2>1, HandledIs DEF Writes
  <2>3. worker[r].object = i /\ script[r].method = "POST" => Counts(r)  BY DEF Counts, Held
  <2>4. QED  BY <2>2, <2>3
<1>4. CASE Puts(r) /\ object' # object
  <2>1. worker[r].object \in DOMAIN object  BY <1>4 DEF Puts, Turns, Handles, Types
  <2>2. object'[i].etag = object[i].etag  BY <1>4, <2>1, AtIs, PathType DEF Puts, At
  <2>3. ~Writes(r)  BY <1>4 DEF Puts, Writes, Turns
  <2>4. QED  BY <2>2, <2>3
<1>5. QED
  BY <1>1, <1>2, <1>3, <1>4 DEF Does, Kinds, TreeKinds, Still, Quits, Dies, Looks, Gets, Posts, Takes, Waits, Stores, Removes

\* They let two requests for one state through only where they overlap.
LEMMA DoesCounts ==
  ASSUME Types, RootStands, Met, EtagHome, EtagCounts, NEW r \in Rs, Does(r)
  PROVE  EtagCounts'
<1>1. Moves(r) /\ script' = script /\ Rs' = Rs /\ Active(r)  BY DEF Does, Rs
<1>2. ASSUME NEW i \in DOMAIN Resources, NEW q \in Rs  PROVE OnState(q, i)' = OnState(q, i)
  BY <1>1, <1>2 DEF OnState, Path
<1> SUFFICES ASSUME NEW i \in DOMAIN Resources, Resources[i].class = "etag"
             PROVE /\ \A q \in Rs : OnState(q, i) =>
                       /\ worker'[q].pc = "render" => script[q].ifMatch <= object'[i].etag
                       /\ worker'[q].pc = "finish" \/ Wrote(q)' => script[q].ifMatch < object'[i].etag
                   /\ \A q, o \in Rs : 
                        (q # o /\ OnState(q, i) /\ OnState(o, i) /\ script[q].ifMatch = script[o].ifMatch
                         /\ Passed(q)' /\ Passed(o)') => o \in worker'[q].met
  BY <1>1, <1>2 DEF EtagCounts
<1>3. /\ i \in DOMAIN object /\ object[i].class = "etag" /\ object[i].etag \in Nat
      /\ tree[Resources[i].path] = i
  BY DEF EtagHome
<1>4. object'[i].etag \in Nat /\ object[i].etag <= object'[i].etag  BY <1>3, EtagGrows
<1>5. \A q \in Rs : script[q].ifMatch \in Int  BY PathType DEF Requests
<1>6. ASSUME NEW q \in Rs, OnState(q, i)
      PROVE  /\ worker[q].pc = "render" => script[q].ifMatch <= object[i].etag
             /\ worker[q].pc = "finish" \/ Wrote(q) => script[q].ifMatch < object[i].etag
  BY <1>6 DEF EtagCounts
<1>7. ASSUME OnState(r, i), Handles(r)
      PROVE  /\ worker[r].object = i /\ worker[r].pc \in {"render", "finish"} /\ Held(r).class = "etag"
  BY <1>7, EtagWorker DEF OnState
<1>8. ASSUME OnState(r, i), Takes(r)  PROVE script[r].ifMatch = object[i].etag
  <2>1. worker[r].keys = {Resources[i].path} /\ ~worker[r].create  BY <1>8 DEF EtagHome, OnState, Takes, Turns
  <2>2. Matches(r, i)  BY <1>3, <1>8, <2>1 DEF Takes
  <2>3. QED  BY <1>8, <2>2 DEF Matches, OnState
<1>9. ASSUME OnState(r, i), ~Takes(r)
      PROVE  /\ worker'[r].pc = "render" => FALSE
             /\ worker'[r].pc = "finish" => worker[r].pc = "render" /\ Writes(r)
             /\ Wrote(r)' => worker[r].pc = "finish"
             /\ Passed(r)' => Passed(r)
  <2>1. script[r].method = "POST"  BY <1>9 DEF OnState
  <2>2. ~Waits(r) /\ ~Makes(r) /\ ~Stores(r) /\ ~Gets(r)
    BY <1>7, <1>9, <2>1 DEF Waits, Makes, Stores, Gets, Turns, Handles
  <2>3. CASE Writes(r)
    <3>1. worker[r].pc = "render" /\ worker'[r].pc = "finish"  BY <1>7, <1>9, <2>3 DEF Writes, Handles
    <3>2. QED  BY <2>3, <3>1 DEF Wrote, Passed, Handles
  <2>4. CASE Puts(r)
    BY <2>4 DEF Puts, Turns, Wrote, Passed, Handles
  <2>5. CASE Quits(r)
    BY <1>1, <2>1, <2>5 DEF Quits, Success, Wrote, Passed, Handles
  <2>6. CASE Dies(r) \/ Looks(r) \/ Posts(r)
    BY <2>6 DEF Dies, Looks, Posts, Turns, Wrote, Passed, Handles
  <2>7. ~Removes(r)  BY <2>1 DEF Removes
  <2>8. QED  BY <1>9, <2>2, <2>3, <2>4, <2>5, <2>6, <2>7 DEF Does, Kinds, TreeKinds
<1>10. ASSUME NEW q \in Rs, q # r
       PROVE  worker'[q] = worker[q] /\ Wrote(q)' = Wrote(q) /\ Passed(q)' = Passed(q)
  <2>1. worker'[q] = worker[q]  BY <1>1, <1>10 DEF Moves
  <2>2. QED  BY <1>1, <2>1 DEF Wrote, Passed, Handles
<1>11. ASSUME NEW q \in Rs, OnState(q, i)
       PROVE  /\ worker'[q].pc = "render" => script[q].ifMatch <= object'[i].etag
              /\ worker'[q].pc = "finish" \/ Wrote(q)' => script[q].ifMatch < object'[i].etag
  <2>1. CASE q # r
    BY <1>3, <1>4, <1>5, <1>6, <1>10, <1>11, <2>1
  <2>2. CASE q = r /\ Takes(r)
    <3>1. worker'[q].pc = "render" /\ object' = object  BY <2>2 DEF Takes, Turns, Still
    <3>2. QED  BY <1>3, <1>8, <1>11, <2>2, <3>1 DEF Wrote
  <2>3. CASE q = r /\ ~Takes(r)
    <3>1. CASE worker'[r].pc = "finish"
      <4>1. worker[r].pc = "render" /\ Writes(r) /\ worker[r].object = i  BY <1>7, <1>9, <1>11, <2>3, <3>1 DEF Handles
      <4>2. object[i].etag < object'[i].etag  BY <1>3, <1>11, <2>3, <4>1, EtagGrows DEF OnState
      <4>3. QED  BY <1>3, <1>4, <1>5, <1>6, <1>11, <2>3, <3>1, <4>1, <4>2
    <3>2. CASE worker'[r].pc # "finish"
      BY <1>3, <1>4, <1>5, <1>6, <1>9, <1>11, <2>3, <3>2
    <3>3. QED  BY <3>1, <3>2
  <2>4. QED  BY <2>1, <2>2, <2>3
<1>12. ASSUME NEW q \in Rs, q # r, OnState(q, i), OnState(r, i), script[q].ifMatch = script[r].ifMatch, Passed(q), Takes(r)
       PROVE  q \in worker[r].met /\ r \in worker[q].met
  <2>1. CASE Handles(q)
    <3>1. Active(q)  BY <2>1 DEF Handles, Active
    <3>2. QED  BY <1>1, <1>12, <3>1 DEF Met
  <2>2. CASE Wrote(q)
    BY <1>3, <1>5, <1>6, <1>8, <1>12, <2>2
  <2>3. QED  BY <1>12, <2>1, <2>2 DEF Passed
<1>13. ASSUME NEW q \in Rs, NEW o \in Rs, q # o, OnState(q, i), OnState(o, i), script[q].ifMatch = script[o].ifMatch,
              Passed(q)', Passed(o)'
       PROVE  o \in worker'[q].met
  <2>1. worker'[q].met = worker[q].met  BY <1>1, <1>10 DEF Moves
  <2>2. CASE Passed(q) /\ Passed(o)
    BY <1>13, <2>1, <2>2 DEF EtagCounts
  <2>3. CASE q = r /\ Takes(r)
    BY <1>10, <1>12, <1>13, <2>1, <2>3
  <2>4. CASE o = r /\ Takes(r)
    BY <1>10, <1>12, <1>13, <2>1, <2>4
  <2>5. QED  BY <1>9, <1>10, <1>13, <2>2, <2>3, <2>4
<1>14. QED  BY <1>11, <1>13

LEMMA ReceiveCounts == ASSUME Types, EtagCounts, NEW r \in Rs, Receive(r) PROVE EtagCounts'
<1>1. Still /\ script' = script /\ Rs' = Rs /\ worker'[r].pc = "route" /\ worker[r].pc = "new"  BY ReceiveFacts DEF Rs
<1>2. ASSUME NEW q \in Rs
      PROVE  /\ q # r => worker'[q].pc = worker[q].pc /\ worker[q].met \subseteq worker'[q].met
             /\ worker'[q].code = worker[q].code
  BY ReceiveFacts
<1>3. ASSUME NEW q \in Rs  PROVE (Wrote(q)' => Wrote(q)) /\ (Passed(q)' => Passed(q) /\ q # r)
  BY <1>1, <1>2 DEF Wrote, Passed, Handles
<1>4. ASSUME NEW i \in DOMAIN Resources, NEW q \in Rs  PROVE OnState(q, i)' = OnState(q, i)
  BY <1>1, <1>4 DEF OnState, Path
<1>5. Still  BY <1>1
<1>6. ASSUME NEW i \in DOMAIN Resources, Resources[i].class = "etag"
      PROVE  /\ \A q \in Rs : OnState(q, i) =>
                 /\ worker'[q].pc = "render" => script[q].ifMatch <= object[i].etag
                 /\ worker'[q].pc = "finish" \/ Wrote(q)' => script[q].ifMatch < object[i].etag
             /\ \A q, o \in Rs : 
                  (q # o /\ OnState(q, i) /\ OnState(o, i) /\ script[q].ifMatch = script[o].ifMatch
                   /\ Passed(q)' /\ Passed(o)') => o \in worker'[q].met
  BY <1>1, <1>2, <1>3, <1>6 DEF EtagCounts
<1>7. QED  BY <1>1, <1>4, <1>6 DEF EtagCounts, Still

-----------------------------------------------------------------------------
\* A server starts so.
LEMMA TreeInitially == ASSUME TreeInit PROVE Types /\ RootStands /\ Met /\ Finds /\ EtagHome /\ EtagCounts
<1>1. script \in Seq(Requests)  BY TreeAssumption DEF TreeInit
<1>2. /\ Resources \in Seq([class : Classes, path : Seq(Segments)]) /\ DOMAIN Resources = 1..Len(Resources)
      /\ Len(Resources) \in Nat
      /\ \A i \in DOMAIN Resources : Resources[i].class \in Classes /\ Resources[i].path \in Seq(Segments)
  <2>1. Resources \in Seq([class : Classes, path : Seq(Segments)])  BY TreeAssumption
  <2>2. DOMAIN Resources = 1..Len(Resources) /\ Len(Resources) \in Nat  BY <2>1, LenProperties
  <2>3. \A i \in 1..Len(Resources) : Resources[i] \in [class : Classes, path : Seq(Segments)]  BY <2>1, ElementOfSeq
  <2>4. QED  BY <2>1, <2>2, <2>3
<1>3. \A i \in DOMAIN Resources :
         LET o == NewObject(Resources[i].class, Resources[i].path, 0) IN
         /\ o \in Objects /\ o.class = Resources[i].class /\ o.path = Resources[i].path
         /\ o.class = "etag" => o.etag = 0
  BY <1>2 DEF NewObject, Objects, None
<1>4. /\ object \in Seq(Objects) /\ DOMAIN object = DOMAIN Resources
      /\ \A i \in DOMAIN Resources : /\ object[i].class = Resources[i].class /\ object[i].path = Resources[i].path
                                     /\ object[i].class = "etag" => object[i].etag = 0
  <2>1. object \in [1..Len(Resources) -> Objects]  BY <1>2, <1>3 DEF TreeInit
  <2>2. object \in Seq(Objects)
    <3>1. object \in UNION {[1..n -> Objects] : n \in Nat}  BY <1>2, <2>1
    <3>2. QED  BY <3>1, SeqDef
  <2>3. QED  BY <1>2, <1>3, <2>1, <2>2 DEF TreeInit
<1>5. /\ DOMAIN tree = {Resources[i].path : i \in DOMAIN Resources}
      /\ \A i \in DOMAIN Resources : tree[Resources[i].path] = i
  BY TreeAssumption DEF TreeInit
<1>6. tree \in [DOMAIN tree -> DOMAIN object] /\ DOMAIN tree \subseteq Seq(Segments)
  BY <1>2, <1>4, <1>5 DEF TreeInit
<1>7. NewWorker \in Workers  BY DEF NewWorker, Workers, Pcs, Codes
<1>8. worker \in [Rs -> Workers] /\ \A r \in Rs : worker[r].pc = "new" /\ worker[r].create = FALSE
  BY <1>7 DEF TreeInit, NewWorker
<1>9. Types  BY <1>1, <1>4, <1>6, <1>8 DEF Types, Handles
<1>10. RootStands
  <2>1. PICK i \in DOMAIN Resources : Resources[i] = [class |-> "root", path |-> Root]  BY TreeAssumption
  <2>2. Root \in DOMAIN tree /\ object[tree[Root]].class = "root"  BY <1>4, <1>5, <2>1
  <2>3. QED  BY <1>8, <2>2 DEF RootStands, Handles
<1>11. Met /\ Finds  BY <1>8 DEF Met, Finds, Active, Handles
<1>12. EtagHome
  BY <1>4, <1>5, <1>8, EtagIsNotRoot, TreeAssumption DEF EtagHome, Handles
<1>13. EtagCounts
  BY <1>8 DEF EtagCounts, Passed, Wrote, Handles
<1>14. QED  BY <1>9, <1>10, <1>11, <1>12, <1>13

TreeInv == Types /\ RootStands /\ Met /\ Finds /\ EtagHome /\ EtagCounts

\* Every step is one of these, or leaves the tree and its workers alone.
LEMMA StepsInTree ==
  ASSUME Types, RootStands, [Next]_vars
  PROVE  \/ \E r \in Rs : Receive(r) \/ Does(r)
         \/ UNCHANGED treeVars
BY TreeStepIs, HandlerIs DEF Next, vars, treeVars, Purge, Tick

\* The invariant is inductive.
LEMMA TreeInvInductive ==
  /\ Init => TreeInv
  /\ TreeInv /\ [Next]_vars => TreeInv'
<1>1. Init => TreeInv  BY TreeInitially DEF Init, TreeInv
<1>2. ASSUME TreeInv, [Next]_vars  PROVE TreeInv'
  <2>0. Types /\ RootStands /\ Met /\ Finds /\ EtagHome /\ EtagCounts  BY <1>2 DEF TreeInv
  <2>1. ASSUME NEW r \in Rs, Receive(r)  PROVE TreeInv'
    BY <2>0, <2>1, ReceiveTypes, ReceiveRoot, ReceiveMet, ReceiveFinds, ReceiveHome, ReceiveCounts DEF TreeInv
  <2>2. ASSUME NEW r \in Rs, Does(r)  PROVE TreeInv'
    BY <2>0, <2>2, DoesTypes, DoesRoot, DoesMet, DoesFinds, DoesHome, DoesCounts DEF TreeInv
  <2>3. CASE UNCHANGED treeVars
    <3>1. Types' /\ RootStands'
      BY <2>0, <2>3 DEF treeVars, Types, RootStands, Rs, Handles, Path, Held
    <3>2. Met' /\ Finds'
      BY <2>0, <2>3 DEF treeVars, Met, Finds, Rs, Handles, Path, Active, Crossed, Empty
    <3>3. EtagHome' /\ EtagCounts'
      BY <2>0, <2>3 DEF treeVars, EtagHome, EtagCounts, Rs, Handles, Path, OnState, Passed, Wrote
    <3>4. QED  BY <3>1, <3>2, <3>3 DEF TreeInv
  <2>4. QED  BY <1>2, <2>0, <2>1, <2>2, <2>3, StepsInTree
<1>3. QED  BY <1>1, <1>2

\* It holds in every behaviour.
LEMMA TreeInvariant == Spec => []TreeInv
BY TreeInvInductive, PTL DEF Spec

\* A worker dies of a registration without a payload, or only where the handling of a DELETE overlaps its own,
\* in a server with any resources, any requests and any number of workers.
THEOREM DeathIsOfCrossing == Spec => []DiesOnlyOfCrossing
<1>1. TreeInv => DiesOnlyOfCrossing  BY DEF TreeInv, Finds, Crossed, DiesOnlyOfCrossing
<1>2. QED  BY <1>1, TreeInvariant, PTL

\* Of two POSTs for one state of a resource that counts its states, both succeed
\* only if their handling overlaps.
THEOREM MatchedOnce == Spec => []IfMatchOnce
<1>1. TreeInv => IfMatchOnce
  <2> SUFFICES ASSUME TreeInv, NEW r \in Rs, NEW q \in Rs, r # q, Wrote(r), Wrote(q),
                      script[r].method = "POST", script[q].method = "POST",
                      Path(r) = Path(q), Path(r) \in EtagPaths,
                      script[r].ifMatch = script[q].ifMatch, script[r].ifMatch # -1
               PROVE  q \in worker[r].met
    BY DEF IfMatchOnce
  <2>1. PICK i \in DOMAIN Resources : Resources[i].class = "etag" /\ Path(r) = Resources[i].path
    BY DEF EtagPaths
  <2>2. OnState(r, i) /\ OnState(q, i) /\ Passed(r) /\ Passed(q)  BY <2>1 DEF OnState, Passed
  <2>3. QED  BY <2>1, <2>2 DEF TreeInv, EtagCounts
<1>2. QED  BY <1>1, TreeInvariant, PTL

-----------------------------------------------------------------------------
(* What a PUT or POST has written.                                         *)

\* No resource has two paths: no handler answers a POST for a path below its
\* resource with that resource itself.
OnePath == \A p, q \in DOMAIN tree : tree[p] = tree[q] => p = q

Received(r) == worker[r].pc # "new"
\* The handler of r has been called, or never will be.
Through(r) == worker[r].pc \in {"finish", "insert", "done", "dead"}

\* Requests are received in their order, and met says whose handling overlaps: of
\* two whose handling does, so does that of each received between them with the
\* first.
Order == \A r, q \in Rs : q < r /\ Received(r) => Received(q)
Meets ==
  /\ \A r \in Rs : ~Received(r) => worker[r].met = {}
  /\ \A r, q \in Rs : q \in worker[r].met => r \in worker[q].met
  /\ \A r, q \in Rs : q < r /\ Received(r) /\ Active(q) => q \in worker[r].met
  /\ \A r, q, s \in Rs : s < q /\ q < r /\ s \in worker[r].met => s \in worker[q].met

\* A resource in the tree is at the path that it says; one that a POST handles may
\* have been moved since it was found, to the path of a POST that was met.
Homes == \A p \in DOMAIN tree : object[tree[p]].path = p
HeldPaths ==
  \A q \in Rs : Handles(q) /\ script[q].method = "POST" /\ ~worker[q].create =>
    \/ Held(q).path \in {Root, Path(q)}
    \/ \E s \in Rs : s \in worker[q].met /\ script[s].method = "POST" /\ Held(q).path = Path(s)

\* Another request may have changed what r writes.  Unlike Rewrites, it never
\* becomes false again.
Spoiled(r) ==
  \/ \E q \in Rs : q \in worker[r].met /\ script[q].method # "GET"
  \/ \E q \in Rs : q > r /\ Changes(q)
       /\ (script[q].path = script[r].path \/ (Through(q) /\ worker[q].object = worker[r].object))

\* How far r has come while none has: its resource is at its path, but for a new
\* one, and has its payload once the handler has been called.
InPlace(r) == Path(r) \in DOMAIN tree /\ tree[Path(r)] = worker[r].object
Refuses(r) == script[r].method = "POST" /\ Held(r).class = "rd" /\ worker[r].code \notin Success \cup {"none"}
Stage(r) ==
  /\ script[r].method = "PUT" /\ Handles(r) => InPlace(r)
  /\ script[r].method = "POST" /\ ~worker[r].create =>
       /\ worker[r].pc \in {"render", "callback"} => InPlace(r)
       /\ worker[r].pc = "finish" => InPlace(r) \/ (Held(r).class = "basic" /\ Held(r).path = Root)
  /\ worker[r].pc # "insert"
  /\ worker[r].pc = "finish" => Held(r).payload = r \/ Refuses(r)
  /\ Wrote(r) => InPlace(r) /\ Held(r).payload = r
Writer(r) == script[r].method \in {"PUT", "POST"} /\ Path(r) # Rd
Stages == \A r \in Rs : Writer(r) /\ ~Spoiled(r) => Stage(r)

WriteInv == Order /\ Meets /\ Homes /\ HeldPaths /\ Stages

\* Requests are numbered.
LEMMA RsAreNats == ASSUME Types PROVE Rs \subseteq Nat
BY LenProperties DEF Types, Rs

\* A worker's step starts no other.
LEMMA DoesOrder == ASSUME Types, Order, NEW r \in Rs, Does(r) PROVE Order'
<1>1. Moves(r) /\ Active(r) /\ Rs' = Rs  BY DEF Does, Rs
<1>2. worker'[r].pc # "new"
  BY <1>1 DEF Does, Active, Kinds, TreeKinds, Turns, Quits, Dies, Looks, Gets, Posts, Takes, Waits, Stores, Makes, Writes, Puts, Removes
<1>3. \A q \in Rs : Received(q)' = Received(q)  BY <1>1, <1>2 DEF Moves, Received, Active
<1>4. QED  BY <1>1, <1>3 DEF Order

LEMMA ReceiveOrder == ASSUME Types, Order, NEW r \in Rs, Receive(r) PROVE Order'
<1>1. Rs' = Rs /\ Received(r)' /\ \A q \in Rs : q # r => Received(q)' = Received(q)
  BY ReceiveFacts DEF Received, Rs
<1>2. Rs \subseteq Nat /\ Rs = 1..Len(script)  BY LenProperties DEF Types, Rs
<1>3. \A q \in Rs : q < r => Received(q)
  <2>1. \A q \in 1..(r - 1) : worker[q].pc # "new"  BY DEF Receive
  <2>2. QED  BY <1>2, <2>1 DEF Received
<1>4. QED  BY <1>1, <1>2, <1>3 DEF Order

\* Nor does it change who has met whom.
LEMMA DoesMeets == ASSUME Types, Order, Meets, NEW r \in Rs, Does(r) PROVE Meets'
<1>1. Moves(r) /\ Active(r) /\ Rs' = Rs  BY DEF Does, Rs
<1>2. worker'[r].pc # "new"
  BY <1>1 DEF Does, Active, Kinds, TreeKinds, Turns, Quits, Dies, Looks, Gets, Posts, Takes, Waits, Stores, Makes, Writes, Puts, Removes
<1>3. \A q \in Rs : worker'[q].met = worker[q].met /\ (Active(q)' => Active(q)) /\ Received(q)' = Received(q)
  BY <1>1, <1>2 DEF Moves, Received, Active
<1>4. QED  BY <1>1, <1>3 DEF Meets

LEMMA ReceiveMeets == ASSUME Types, Order, Meets, NEW r \in Rs, Receive(r) PROVE Meets'
<1>1. /\ Rs' = Rs /\ Received(r)' /\ ~Received(r) /\ worker'[r].met = {q \in Rs : Active(q)}
      /\ worker[r].met = {} /\ ~Active(r)
  BY ReceiveFacts DEF Received, Rs, Active, Meets
<1>2. ASSUME NEW q \in Rs, q # r
      PROVE  /\ worker'[q].met = worker[q].met \cup (IF Active(q) THEN {r} ELSE {})
             /\ Active(q)' = Active(q) /\ Received(q)' = Received(q)
  BY <1>2, ReceiveFacts DEF Active, Received
<1>3. Rs \subseteq Nat  BY RsAreNats
<1>4. \A q \in Rs : q < r => Received(q)
  BY <1>1, <1>2, <1>3, ReceiveOrder DEF Order
<1>5. \A q \in Rs : q > r => ~Received(q)
  BY <1>1 DEF Order
<1>6. \A q \in Rs : Active(q) => Received(q)  BY DEF Active, Received
<1>7. ASSUME NEW q \in Rs, ~Received(q)'  PROVE worker'[q].met = {}
  BY <1>1, <1>2, <1>6, <1>7 DEF Meets
<1>8. ASSUME NEW q \in Rs, NEW s \in Rs, s \in worker'[q].met  PROVE q \in worker'[s].met
  <2>1. CASE q = r  BY <1>1, <1>2, <1>8, <2>1
  <2>2. CASE q # r /\ s = r
    <3>1. r \notin worker[q].met  BY <1>1 DEF Meets
    <3>2. QED  BY <1>1, <1>2, <1>8, <2>2, <3>1
  <2>3. CASE q # r /\ s # r  BY <1>2, <1>8, <2>3 DEF Meets
  <2>4. QED  BY <2>1, <2>2, <2>3
<1>9. ASSUME NEW q \in Rs, NEW s \in Rs, s < q, Received(q)', Active(s)'  PROVE s \in worker'[q].met
  <2>1. CASE q = r
    <3>1. s # r  BY <1>3, <1>9, <2>1
    <3>2. QED  BY <1>1, <1>2, <1>9, <2>1, <3>1
  <2>2. CASE q # r /\ s = r  BY <1>2, <1>5, <1>9, <2>2
  <2>3. CASE q # r /\ s # r  BY <1>2, <1>9, <2>3 DEF Meets
  <2>4. QED  BY <2>1, <2>2, <2>3
<1>10. ASSUME NEW o \in Rs, NEW q \in Rs, NEW s \in Rs, s < q, q < o, s \in worker'[o].met
       PROVE  s \in worker'[q].met
  <2>1. CASE o = r
    <3>1. Active(s) /\ q # r /\ s # r  BY <1>1, <1>3, <1>10, <2>1
    <3>2. s \in worker[q].met  BY <1>4, <1>10, <2>1, <3>1 DEF Meets
    <3>3. QED  BY <1>2, <3>1, <3>2
  <2>2. CASE o # r /\ s \in worker[o].met
    <3>1. s \in worker[q].met  BY <1>10, <2>2 DEF Meets
    <3>2. q # r  BY <1>1, <3>1
    <3>3. QED  BY <1>2, <3>1, <3>2
  <2>3. CASE o # r /\ s \notin worker[o].met
    <3>1. s = r /\ Active(o)  BY <1>2, <1>10, <2>3
    <3>2. o > r  BY <1>3, <1>10, <3>1
    <3>3. QED  BY <1>5, <1>6, <3>1, <3>2
  <2>4. QED  BY <2>1, <2>2, <2>3
<1>11. QED  BY <1>1, <1>7, <1>8, <1>9, <1>10 DEF Meets

\* The resource of the handler gets the path of the request.
Adds(r) == worker[r].pc = "finish" /\ script[r].method = "POST" /\ (worker[r].create \/ Held(r).path = Root)

\* Each resource in the tree is where it says, if none is added that is there.
LEMMA DoesHomes ==
  ASSUME Types, Homes, NEW r \in Rs, Does(r),
         Puts(r) /\ Adds(r) => \A p \in DOMAIN tree : p # Path(r) => tree[p] # worker[r].object
  PROVE  Homes'
<1>0. \A p \in DOMAIN tree : tree[p] \in DOMAIN object  BY DEF Types
<1>1. CASE Still  BY <1>1 DEF Still, Homes
<1>2. CASE Makes(r)
  BY <1>0, <1>2, MadeIs DEF Makes, Homes
<1>3. CASE Writes(r)
  <2>1. worker[r].object \in DOMAIN object  BY <1>3 DEF Writes, Handles, Types
  <2>2. QED  BY <1>0, <1>3, <2>1, HandledIs DEF Writes, Homes
<1>4. CASE Puts(r)
  <2>1. worker[r].object \in DOMAIN object  BY <1>4 DEF Puts, Turns, Handles, Types
  <2>2. CASE (worker[r].create \/ Held(r).path = Root) /\ At(Path(r), worker[r].object)
    <3>0. Adds(r)  BY <1>4, <2>2 DEF Puts, Turns, Adds
    <3>1. Placed(Path(r), worker[r].object) /\ object' = [object EXCEPT ![worker[r].object].path = Path(r)]  BY <2>2 DEF At
    <3>2. /\ DOMAIN tree' = DOMAIN tree \cup {Path(r)} /\ tree'[Path(r)] = worker[r].object
          /\ \A q \in DOMAIN tree : q # Path(r) => tree'[q] = tree[q]
      BY <2>1, <3>1, PlacedIs, PathType
    <3>3. \A y \in DOMAIN object : object'[y].path = IF y = worker[r].object THEN Path(r) ELSE object[y].path
      BY <2>1, <3>1, AtIs, PathType
    <3>4. ASSUME NEW p \in DOMAIN tree'  PROVE object'[tree'[p]].path = p
      <4>1. CASE p = Path(r)  BY <2>1, <3>2, <3>3, <4>1
      <4>2. CASE p # Path(r)
        <5>1. p \in DOMAIN tree /\ tree'[p] = tree[p]  BY <3>2, <3>4, <4>2
        <5>2. tree[p] # worker[r].object  BY <1>4, <3>0, <4>2, <5>1
        <5>3. QED  BY <1>0, <3>3, <5>1, <5>2 DEF Homes
      <4>3. QED  BY <4>1, <4>2
    <3>5. QED  BY <3>4 DEF Homes
  <2>3. CASE Placed(Held(r).path, worker[r].object) /\ UNCHANGED object
    <3>1. Held(r).path \in Seq(Segments)  BY <2>1, ObjectType DEF Held
    <3>2. /\ DOMAIN tree' = DOMAIN tree \cup {Held(r).path} /\ tree'[Held(r).path] = worker[r].object
          /\ \A q \in DOMAIN tree : q # Held(r).path => tree'[q] = tree[q]
      BY <2>1, <2>3, <3>1, PlacedIs
    <3>3. QED  BY <2>3, <3>2 DEF Homes, Held
  <2>4. QED  BY <1>4, <2>2, <2>3 DEF Puts
<1>5. CASE Removes(r)
  BY <1>5 DEF Removes, Homes
<1>6. QED
  BY <1>1, <1>2, <1>3, <1>4, <1>5 DEF Does, Kinds, TreeKinds, Quits, Dies, Looks, Gets, Posts, Takes, Waits, Stores

LEMMA OnePathHomes ==
  ASSUME Types, Homes, OnePath', NEW r \in Rs, Does(r)
  PROVE  Homes'
<1>1. ASSUME Puts(r), Adds(r), NEW p \in DOMAIN tree, p # Path(r)  PROVE tree[p] # worker[r].object
  <2>1. worker[r].object \in DOMAIN object  BY <1>1 DEF Puts, Turns, Handles, Types
  <2>2. Placed(Path(r), worker[r].object)  BY <1>1 DEF Puts, Adds, At
  <2>3. /\ DOMAIN tree' = DOMAIN tree \cup {Path(r)} /\ tree'[Path(r)] = worker[r].object
        /\ tree'[p] = tree[p]
    BY <1>1, <2>1, <2>2, PlacedIs, PathType
  <2>4. QED  BY <1>1, <2>3 DEF OnePath
<1>2. QED  BY <1>1, DoesHomes

\* What a step leaves of the path of a resource that is there.
LEMMA PathMoves ==
  ASSUME Types, NEW r \in Rs, Does(r), NEW y \in DOMAIN object
  PROVE  \/ object'[y].path = object[y].path
         \/ /\ Puts(r) /\ worker[r].object = y /\ (worker[r].create \/ Held(r).path = Root)
            /\ object'[y].path = Path(r)
<1>1. CASE Still  BY <1>1 DEF Still
<1>2. CASE Makes(r)  BY <1>2, MadeIs DEF Makes
<1>3. CASE Writes(r)
  <2>1. worker[r].object \in DOMAIN object  BY <1>3 DEF Writes, Handles, Types
  <2>2. QED  BY <1>3, <2>1, HandledIs DEF Writes
<1>4. CASE Puts(r)
  <2>1. worker[r].object \in DOMAIN object  BY <1>4 DEF Puts, Turns, Handles, Types
  <2>2. QED  BY <1>4, <2>1, AtIs, PathType DEF Puts, At
<1>5. CASE Removes(r)  BY <1>5 DEF Removes
<1>6. QED
  BY <1>1, <1>2, <1>3, <1>4, <1>5 DEF Does, Kinds, TreeKinds, Quits, Dies, Looks, Gets, Posts, Takes, Waits, Stores

LEMMA DoesHeldPaths ==
  ASSUME Types, RootStands, Met, Homes, HeldPaths, NEW r \in Rs, Does(r)
  PROVE  HeldPaths'
<1>1. Moves(r) /\ Active(r) /\ Rs' = Rs /\ script' = script  BY DEF Does, Rs
<1>2. \A q \in Rs : Path(q)' = Path(q) /\ worker'[q].met = worker[q].met  BY <1>1 DEF Path, Moves
<1> SUFFICES ASSUME NEW q \in Rs, Handles(q)', script[q].method = "POST", ~worker'[q].create
             PROVE  \/ Held(q)'.path \in {Root, Path(q)}
                    \/ \E s \in Rs : s \in worker[q].met /\ script[s].method = "POST" /\ Held(q)'.path = Path(s)
  BY <1>1, <1>2 DEF HeldPaths
<1>3. CASE q # r
  <2>1. worker'[q] = worker[q] /\ Handles(q) /\ ~worker[q].create  BY <1>1, <1>3 DEF Moves, Handles
  <2>2. worker[q].object \in DOMAIN object  BY <2>1 DEF Types
  <2>3. CASE Held(q)'.path = Held(q).path  BY <2>1, <2>3 DEF HeldPaths
  <2>4. CASE Puts(r) /\ Held(q)'.path = Path(r)
    <3>1. r \in worker[q].met  BY <1>1, <1>3, <2>1 DEF Met, Handles, Active
    <3>2. script[r].method = "POST"  BY <2>4 DEF Puts
    <3>3. QED  BY <2>4, <3>1, <3>2
  <2>5. QED  BY <2>1, <2>2, <2>3, <2>4, PathMoves DEF Held
<1>4. CASE q = r /\ Takes(r)
  <2>1. worker[r].keys = {Path(r)} /\ ~worker[r].create  BY <1>4 DEF Takes, Turns, RootStands
  <2>2. Path(r) \in DOMAIN tree /\ worker'[r].object = tree[Path(r)] /\ object' = object
    BY <1>4, <2>1 DEF Takes, Still
  <2>3. Held(r)'.path = Path(r)  BY <2>2 DEF Homes, Held
  <2>4. QED  BY <1>4, <2>3
<1>5. CASE q = r /\ Makes(r)
  <2>1. Held(r)' = NewObject("basic", Root, r)  BY <1>5, MadeIs DEF Makes, Held
  <2>2. QED  BY <1>5, <2>1 DEF NewObject
<1>6. CASE q = r /\ (Waits(r) \/ Stores(r) \/ Writes(r))
  <2>1. Handles(r) /\ Keeps(r) /\ ~Puts(r)
    BY <1>6 DEF Waits, Stores, Writes, Turns, Handles, Puts
  <2>2. worker[r].object \in DOMAIN object  BY <2>1 DEF Types
  <2>3. Held(r)'.path = Held(r).path  BY <2>1, <2>2, PathMoves DEF Held, Keeps
  <2>4. ~worker[r].create  BY <1>6, <2>1 DEF Keeps
  <2>5. QED  BY <1>6, <2>1, <2>3, <2>4 DEF HeldPaths
<1>7. ~Gets(r) \/ q # r  BY DEF Gets
<1>8. Quits(r) \/ Dies(r) \/ Looks(r) \/ Posts(r) \/ Puts(r) \/ Removes(r) => q # r
  BY DEF Quits, Dies, Looks, Posts, Puts, Removes, Turns, Handles
<1>9. QED
  BY <1>3, <1>4, <1>5, <1>6, <1>7, <1>8 DEF Does, Kinds, TreeKinds

LEMMA ReceiveHeldPaths == ASSUME Types, HeldPaths, NEW r \in Rs, Receive(r) PROVE HeldPaths'
<1>1. Still /\ script' = script /\ Rs' = Rs /\ worker'[r].pc = "route"  BY ReceiveFacts DEF Rs
<1>2. \A q \in Rs : Path(q)' = Path(q)  BY <1>1 DEF Path
<1>3. \A q \in Rs : q # r => /\ worker'[q].pc = worker[q].pc /\ worker'[q].object = worker[q].object
                             /\ worker'[q].create = worker[q].create /\ worker[q].met \subseteq worker'[q].met
  BY ReceiveFacts
<1>4. ASSUME NEW q \in Rs, Handles(q)', script[q].method = "POST", ~worker'[q].create
      PROVE  \/ Held(q)'.path \in {Root, Path(q)}
             \/ \E s \in Rs : s \in worker'[q].met /\ script[s].method = "POST" /\ Held(q)'.path = Path(s)
  <2>1. q # r  BY <1>1, <1>4 DEF Handles
  <2>2. Handles(q) /\ ~worker[q].create /\ Held(q)' = Held(q)
    BY <1>1, <1>3, <1>4, <2>1 DEF Handles, Held, Still
  <2>3. QED  BY <1>3, <1>4, <2>1, <2>2 DEF HeldPaths
<1>5. QED  BY <1>1, <1>2, <1>4 DEF HeldPaths

-----------------------------------------------------------------------------
\* Two workers have met if the one that was received first is still at work.
LEMMA HasMet ==
  ASSUME Types, Meets, NEW r \in Rs, NEW q \in Rs, r # q, Received(r), Received(q),
         r < q => Active(r), q < r => Active(q)
  PROVE  q \in worker[r].met
<1>1. r < q \/ q < r  BY RsAreNats
<1>2. QED  BY <1>1 DEF Meets

\* What has been spoiled stays so.
LEMMA DoesSpoils ==
  ASSUME Types, Meets, NEW r \in Rs, Does(r), NEW q \in Rs, Spoiled(q)
  PROVE  Spoiled(q)'
<1>1. Moves(r) /\ Active(r) /\ Rs' = Rs /\ script' = script  BY DEF Does, Rs
<1>2. worker'[r].pc # "new"
  BY <1>1 DEF Does, Active, Kinds, TreeKinds, Turns, Quits, Dies, Looks, Gets, Posts, Takes, Waits, Stores, Makes, Writes, Puts, Removes
<1>3. worker'[q].met = worker[q].met  BY <1>1 DEF Moves
<1>4. CASE \E s \in Rs : s \in worker[q].met /\ script[s].method # "GET"
  BY <1>1, <1>3, <1>4 DEF Spoiled
<1>5. ASSUME NEW s \in Rs, s > q, Changes(s),
             script[s].path = script[q].path \/ (Through(s) /\ worker[s].object = worker[q].object),
             ~ \E o \in Rs : o \in worker[q].met /\ script[o].method # "GET"
      PROVE  Spoiled(q)'
  <2>1. Changes(s)'  BY <1>1, <1>2, <1>5 DEF Changes, Moves
  <2>2. ~Active(q)
    <3>1. ASSUME Active(q)  PROVE q \in worker[s].met
      BY <1>5, <3>1 DEF Meets, Changes, Received
    <3>2. ASSUME Active(q)  PROVE s \in worker[q].met  BY <3>1, <3>2 DEF Meets
    <3>3. QED  BY <1>5, <3>2 DEF Changes
  <2>3. worker'[q] = worker[q]  BY <1>1, <2>2 DEF Moves
  <2>4. Through(s) => Through(s)' /\ worker'[s].object = worker[s].object
    <3>1. CASE s # r  BY <1>1, <3>1 DEF Moves, Through
    <3>2. CASE s = r
      BY <1>1, <3>2 DEF Does, Active, Kinds, TreeKinds, Turns, Keeps, Through, Quits, Dies, Looks, Gets, Posts, Takes, Waits, Stores, Makes, Writes, Puts, Removes
    <3>3. QED  BY <3>1, <3>2
  <2>5. QED  BY <1>1, <1>5, <2>1, <2>3, <2>4 DEF Spoiled
<1>6. QED  BY <1>4, <1>5 DEF Spoiled

LEMMA ReceiveSpoils ==
  ASSUME Types, Order, Meets, NEW r \in Rs, Receive(r), NEW q \in Rs, Spoiled(q)
  PROVE  Spoiled(q)'
<1>1. Rs' = Rs /\ script' = script /\ ~Received(r)  BY ReceiveFacts DEF Rs, Received
<1>2. q # r
  <2>1. worker[r].met = {}  BY <1>1 DEF Meets
  <2>2. \A s \in Rs : s > r => ~Received(s)  BY <1>1 DEF Order
  <2>3. QED  BY <2>1, <2>2 DEF Spoiled, Changes, Received
<1>3. \A s \in Rs : s # r => /\ worker'[s].pc = worker[s].pc /\ worker'[s].object = worker[s].object
                             /\ worker[s].met \subseteq worker'[s].met
  BY ReceiveFacts
<1>4. \A s \in Rs : Changes(s) => s # r  BY <1>1 DEF Changes, Received
<1>5. \A s \in Rs : Changes(s) => Changes(s)' /\ (Through(s) => Through(s)')
  BY <1>1, <1>3, <1>4 DEF Changes, Through
<1>6. QED  BY <1>1, <1>2, <1>3, <1>4, <1>5 DEF Spoiled

\* A GET leaves tree and resources alone.
LEMMA GetIsStill == ASSUME Types, NEW r \in Rs, Does(r), script[r].method = "GET" PROVE Still
BY DEF Does, Kinds, TreeKinds, Still, Quits, Dies, Looks, Gets, Posts, Takes, Waits, Stores, Makes, Writes, Handled, Puts, Removes

\* What a step leaves of a payload.
LEMMA PayloadMoves ==
  ASSUME Types, NEW r \in Rs, Does(r), NEW y \in DOMAIN object
  PROVE  \/ object'[y].payload = object[y].payload
         \/ Writes(r) /\ worker[r].object = y /\ script[r].method \notin {"GET", "DELETE"}
<1>1. CASE Still  BY <1>1 DEF Still
<1>2. CASE Makes(r)  BY <1>2, MadeIs DEF Makes
<1>3. CASE Writes(r)
  <2>1. worker[r].object \in DOMAIN object  BY <1>3 DEF Writes, Handles, Types
  <2>2. QED  BY <1>3, <2>1, HandledIs DEF Writes
<1>4. CASE Puts(r)
  <2>1. worker[r].object \in DOMAIN object  BY <1>4 DEF Puts, Turns, Handles, Types
  <2>2. QED  BY <1>4, <2>1, AtIs, PathType DEF Puts, At
<1>5. CASE Removes(r)  BY <1>5 DEF Removes
<1>6. QED
  BY <1>1, <1>2, <1>3, <1>4, <1>5 DEF Does, Kinds, TreeKinds, Quits, Dies, Looks, Gets, Posts, Takes, Waits, Stores

\* No step changes what another worker has at its path, unless it is for that path
\* or spoils the other in another way.
LEMMA OtherStage ==
  ASSUME Types, RootStands, Meets, HeldPaths, NEW t \in Rs, Does(t),
         NEW r \in Rs, r # t, Writer(r), ~Spoiled(r), ~Spoiled(r)', Stage(r)
  PROVE  Stage(r)'
<1>1. Moves(t) /\ Active(t) /\ Rs' = Rs /\ script' = script /\ worker'[r] = worker[r]  BY DEF Does, Rs, Moves
<1>2. \A q \in Rs : Path(q)' = Path(q)  BY <1>1 DEF Path
<1>3. Rs \subseteq Nat /\ Received(t)  BY <1>1, RsAreNats DEF Active, Received
<1>4. ASSUME Still  PROVE Stage(r)'
  BY <1>1, <1>2, <1>4 DEF Still, Stage, Handles, InPlace, Refuses, Held, Wrote
<1>5. CASE ~Active(r) /\ ~Wrote(r)
  BY <1>1, <1>2, <1>5 DEF Stage, Handles, Active, Wrote
<1>6. CASE Active(r)
  <2>1. t \in worker[r].met  BY <1>1, <1>3, <1>6, HasMet DEF Received, Active
  <2>2. script[t].method = "GET"  BY <2>1 DEF Spoiled
  <2>3. QED  BY <1>4, <2>2, GetIsStill
<1>7. CASE Wrote(r) /\ script[t].method = "GET"
  BY <1>4, <1>7, GetIsStill
<1>8. CASE Wrote(r) /\ script[t].method # "GET"
  <2>1. worker[r].pc = "done" /\ Received(r) /\ ~Active(r)  BY <1>8 DEF Wrote, Received, Active
  <2>2. t \notin worker[r].met  BY <1>8 DEF Spoiled
  <2>3. r < t  BY <1>1, <1>3, <2>1, <2>2, HasMet
  <2>4. ASSUME NEW s \in Rs, Received(s), script[s].method # "GET", s > r  PROVE Path(s) # Path(r)
    <3>1. script[s].path # script[r].path  BY <2>4 DEF Spoiled, Changes, Received
    <3>2. QED  BY <3>1 DEF Writer, Path
  <2>5. Path(t) # Path(r)  BY <1>3, <1>8, <2>3, <2>4
  <2>6. ASSUME NEW s \in Rs, s \in worker[t].met, script[s].method = "POST"  PROVE Path(s) # Path(r)
    <3>1. t \in worker[s].met  BY <2>6 DEF Meets
    <3>2. Received(s) /\ s # r  BY <2>2, <3>1 DEF Meets
    <3>3. CASE s > r  BY <2>4, <2>6, <3>2, <3>3
    <3>4. CASE s < r
      <4>1. s \in worker[r].met  BY <2>3, <2>6, <3>4 DEF Meets
      <4>2. QED  BY <2>6, <4>1 DEF Spoiled
    <3>5. QED  BY <1>3, <3>2, <3>3, <3>4
  <2>7. InPlace(r) /\ Held(r).payload = r /\ worker[r].object \in DOMAIN object
    BY <1>8 DEF Stage, InPlace, Types
  <2>8. InPlace(r)'
    <3>1. CASE tree' = tree  BY <1>1, <1>2, <2>7, <3>1 DEF InPlace
    <3>2. CASE Puts(t)
      <4>1. worker[t].object \in DOMAIN object /\ Handles(t) /\ script[t].method = "POST"
        BY <3>2 DEF Puts, Turns, Handles, Types
      <4>2. PICK p \in Seq(Segments) : p # Path(r) /\ Placed(p, worker[t].object)
        <5>1. CASE At(Path(t), worker[t].object)  BY <2>5, <5>1, PathType DEF At
        <5>2. CASE ~worker[t].create /\ Held(t).path # Root /\ Placed(Held(t).path, worker[t].object)
          <6>1. Held(t).path \in Seq(Segments)  BY <4>1, ObjectType DEF Held
          <6>2. Held(t).path # Path(r)  BY <2>5, <2>6, <4>1, <5>2 DEF HeldPaths
          <6>3. QED  BY <5>2, <6>1, <6>2
        <5>3. QED  BY <3>2, <5>1, <5>2 DEF Puts
      <4>3. Path(r) \in DOMAIN tree' /\ tree'[Path(r)] = tree[Path(r)]
        BY <2>7, <4>1, <4>2, PlacedIs DEF InPlace
      <4>4. QED  BY <1>1, <1>2, <2>7, <4>3 DEF InPlace
    <3>3. CASE Removes(t)
      BY <1>1, <1>2, <2>5, <2>7, <3>3 DEF Removes, InPlace
    <3>4. QED
      BY <3>1, <3>2, <3>3 DEF Does, Kinds, TreeKinds, Still, Quits, Dies, Looks, Gets, Posts, Takes, Waits, Stores, Makes, Writes
  <2>9. Held(r)'.payload = r
    <3>1. CASE Writes(t) /\ worker[t].object = worker[r].object /\ script[t].method \notin {"GET", "DELETE"}
      <4>1. Through(t)' /\ Changes(t)' /\ worker'[t].object = worker'[r].object
        BY <1>1, <3>1 DEF Writes, Keeps, Through, Changes
      <4>2. Spoiled(r)'  BY <1>1, <1>3, <2>3, <4>1 DEF Spoiled
      <4>3. QED  BY <4>2
    <3>2. QED  BY <1>1, <2>7, <3>1, PayloadMoves DEF Held
  <2>10. QED  BY <1>1, <2>1, <2>8, <2>9 DEF Stage, Handles, Wrote
<1>9. QED  BY <1>5, <1>6, <1>7, <1>8

\* A worker's own step takes it from stage to stage.
LEMMA OwnStage ==
  ASSUME Types, RootStands, Homes, NEW r \in Rs, Does(r), Writer(r), Stage(r)
  PROVE  Stage(r)'
<1>1. Moves(r) /\ Active(r) /\ Rs' = Rs /\ script' = script /\ Path(r)' = Path(r)  BY DEF Does, Rs, Path
<1>2. ~Wrote(r) /\ (Handles(r) => worker[r].object \in DOMAIN object)  BY <1>1 DEF Active, Wrote, Types
<1>3. script[r].method \in {"PUT", "POST"} /\ Path(r) # Rd  BY DEF Writer
<1>4. CASE Quits(r)
  <2>1. ASSUME Wrote(r)'  PROVE InPlace(r) /\ Held(r).payload = r
    <3>1. worker[r].pc = "finish" /\ (script[r].method = "POST" => ~worker[r].create /\ Held(r).class # "basic" /\ ~Refuses(r))
      BY <1>1, <1>3, <1>4, <2>1 DEF Quits, Wrote, Success, Refuses
    <3>2. QED  BY <1>3, <3>1 DEF Stage, Handles, Refuses
  <2>2. QED  BY <1>1, <1>4, <2>1 DEF Quits, Still, Keeps, Stage, Handles, InPlace, Held
<1>5. CASE Dies(r) \/ Looks(r) \/ Posts(r)
  BY <1>5 DEF Dies, Looks, Posts, Turns, Stage, Handles, Wrote
<1>6. CASE Gets(r)
  BY <1>1, <1>3, <1>6 DEF Gets, Turns, Still, Stage, InPlace, Wrote
<1>7. CASE Takes(r)
  <2>1. script[r].method = "POST" /\ (~worker[r].create => worker[r].keys = {Path(r)})
    BY <1>7 DEF Takes, Turns, RootStands
  <2>2. ~worker[r].create => Path(r) \in DOMAIN tree /\ worker'[r].object = tree[Path(r)]
    BY <1>7, <2>1 DEF Takes
  <2>3. QED  BY <1>1, <1>7, <2>1, <2>2 DEF Takes, Turns, Still, Stage, InPlace, Wrote
<1>8. CASE Waits(r)
  BY <1>1, <1>8 DEF Waits, Turns, Still, Keeps, Stage, Handles, InPlace, Wrote
<1>9. CASE Stores(r)
  <2>1. /\ Turns(r, "render", "finish") /\ script[r].method = "POST" /\ Held(r).class = "rd"
        /\ worker'[r].code \notin Success \cup {"none"}
    BY <1>3, <1>9 DEF Stores, Turns, Stage
  <2>2. Refuses(r)'  BY <1>1, <1>9, <2>1 DEF Stores, Still, Keeps, Held, Refuses
  <2>3. ~worker[r].create => InPlace(r)'  BY <1>1, <1>9, <2>1 DEF Stores, Still, Keeps, Turns, Stage, InPlace
  <2>4. QED  BY <1>1, <1>9, <2>1, <2>2, <2>3 DEF Stores, Keeps, Turns, Stage, Wrote
<1>10. CASE Makes(r)
  <2>1. Held(r)' = NewObject("basic", Root, r)  BY <1>10, MadeIs DEF Makes, Held
  <2>2. Held(r)'.class = "basic" /\ Held(r)'.path = Root /\ Held(r)'.payload = r  BY <2>1 DEF NewObject
  <2>3. QED  BY <1>1, <1>10, <2>2 DEF Makes, Stage, Wrote
<1>11. CASE Writes(r)
  <2>1. worker[r].object \in DOMAIN object /\ Handles(r)  BY <1>2, <1>11 DEF Writes, Handles
  <2>2. Held(r)'.payload = r
    BY <1>3, <1>11, <2>1, HandledIs DEF Writes, Keeps, Held
  <2>3. InPlace(r) => InPlace(r)'  BY <1>1, <1>11 DEF Writes, Keeps, InPlace
  <2>4. QED  BY <1>1, <1>3, <1>11, <2>1, <2>2, <2>3 DEF Writes, Keeps, Stage, Wrote
<1>12. CASE Puts(r)
  <2>1. worker[r].object \in DOMAIN object /\ Handles(r) /\ worker[r].pc = "finish" /\ worker'[r].pc = "done"
    BY <1>2, <1>12 DEF Puts, Turns, Handles
  <2>2. CASE (worker[r].create \/ Held(r).path = Root) /\ At(Path(r), worker[r].object)
    <3>1. Placed(Path(r), worker[r].object)  BY <2>2 DEF At
    <3>2. InPlace(r)'  BY <1>1, <1>12, <2>1, <3>1, PlacedIs, PathType DEF Puts, Keeps, InPlace
    <3>3. Wrote(r)' => Held(r).payload = r
      BY <1>1, <1>12, <2>1 DEF Puts, Stage, Refuses, Wrote, Success
    <3>4. Wrote(r)' => Held(r)'.payload = r
      <4>1. ~Writes(r)  BY <2>1 DEF Writes
      <4>2. Held(r)'.payload = Held(r).payload  BY <1>12, <2>1, <4>1, PayloadMoves DEF Puts, Keeps, Held
      <4>3. QED  BY <3>3, <4>2
    <3>5. QED  BY <2>1, <3>2, <3>4 DEF Stage, Handles
  <2>3. CASE ~worker[r].create /\ Held(r).path # Root /\ Placed(Held(r).path, worker[r].object) /\ UNCHANGED object
    <3>1. InPlace(r) /\ Held(r).payload = r
      BY <1>12, <2>1, <2>3 DEF Puts, Stage, Refuses
    <3>2. Held(r).path = Path(r)  BY <3>1 DEF InPlace, Homes, Held
    <3>3. InPlace(r)'  BY <1>1, <1>12, <2>1, <2>3, <3>2, PlacedIs, PathType DEF Puts, Keeps, InPlace
    <3>4. Held(r)' = Held(r)  BY <1>12, <2>3 DEF Puts, Keeps, Held
    <3>5. QED  BY <2>1, <3>1, <3>3, <3>4 DEF Stage, Handles
  <2>4. QED  BY <1>12, <2>2, <2>3 DEF Puts
<1>13. ~Removes(r)  BY <1>3 DEF Removes
<1>14. QED
  BY <1>4, <1>5, <1>6, <1>7, <1>8, <1>9, <1>10, <1>11, <1>12, <1>13 DEF Does, Kinds, TreeKinds

LEMMA DoesStages ==
  ASSUME Types, RootStands, Order, Meets, Homes, HeldPaths, Stages, NEW t \in Rs, Does(t)
  PROVE  Stages'
<1>1. Rs' = Rs /\ \A r \in Rs : Writer(r)' = Writer(r)  BY DEF Does, Rs, Writer, Path
<1>2. ASSUME NEW r \in Rs, Writer(r), ~Spoiled(r)'  PROVE Stage(r)'
  <2>1. ~Spoiled(r)  BY <1>2, DoesSpoils
  <2>2. Stage(r)  BY <1>2, <2>1 DEF Stages
  <2>3. QED  BY <1>2, <2>1, <2>2, OwnStage, OtherStage
<1>3. QED  BY <1>1, <1>2 DEF Stages

LEMMA ReceiveStages ==
  ASSUME Types, Order, Meets, Stages, NEW t \in Rs, Receive(t)
  PROVE  Stages'
<1>1. Still /\ Rs' = Rs /\ script' = script /\ worker'[t].pc = "route"  BY ReceiveFacts DEF Rs
<1>2. \A r \in Rs : Writer(r)' = Writer(r) /\ Path(r)' = Path(r)  BY <1>1 DEF Writer, Path
<1>3. ASSUME NEW r \in Rs, Writer(r), ~Spoiled(r)'  PROVE Stage(r)'
  <2>1. Stage(r)  BY <1>3, ReceiveSpoils DEF Stages
  <2>2. CASE r = t  BY <1>1, <2>2 DEF Stage, Handles, Wrote
  <2>3. CASE r # t
    <3>1. /\ worker'[r].pc = worker[r].pc /\ worker'[r].object = worker[r].object
          /\ worker'[r].code = worker[r].code /\ worker'[r].create = worker[r].create
      BY <2>3, ReceiveFacts
    <3>2. QED
      BY <1>1, <1>2, <2>1, <3>1 DEF Still, Stage, Handles, InPlace, Refuses, Held, Wrote
  <2>4. QED  BY <2>2, <2>3
<1>4. QED  BY <1>1, <1>2, <1>3 DEF Stages

\* A server starts so.
LEMMA WriteInitially == ASSUME TreeInit PROVE WriteInv
<1>1. \A r \in Rs : worker[r].pc = "new" /\ worker[r].met = {}  BY DEF TreeInit, NewWorker
<1>2. Order /\ Meets  BY <1>1 DEF Order, Meets, Received, Active
<1>3. Homes
  <2>1. /\ DOMAIN tree = {Resources[i].path : i \in DOMAIN Resources}
        /\ \A i \in DOMAIN Resources : tree[Resources[i].path] = i
    BY TreeAssumption DEF TreeInit
  <2>2. \A i \in DOMAIN Resources : object[i].path = Resources[i].path  BY DEF TreeInit, NewObject
  <2>3. QED  BY <2>1, <2>2 DEF Homes
<1>4. HeldPaths /\ Stages  BY <1>1 DEF HeldPaths, Stages, Stage, Handles, Wrote
<1>5. QED  BY <1>2, <1>3, <1>4 DEF WriteInv

\* While no resource has two paths, every step keeps what has been written.
LEMMA WriteInvStep ==
  ASSUME TreeInv, WriteInv, [Next]_vars, OnePath'
  PROVE  WriteInv'
<1>1. Types /\ RootStands /\ Met /\ Order /\ Meets /\ Homes /\ HeldPaths /\ Stages  BY DEF TreeInv, WriteInv
<1>2. ASSUME NEW r \in Rs, Receive(r)  PROVE WriteInv'
  <2>1. Homes'
    <3>1. Still  BY <1>1, <1>2, ReceiveFacts
    <3>2. QED  BY <1>1, <3>1 DEF Still, Homes
  <2>2. QED
    BY <1>1, <1>2, <2>1, ReceiveOrder, ReceiveMeets, ReceiveHeldPaths, ReceiveStages DEF WriteInv
<1>3. ASSUME NEW r \in Rs, Does(r)  PROVE WriteInv'
  BY <1>1, <1>3, DoesOrder, DoesMeets, OnePathHomes, DoesHeldPaths, DoesStages DEF WriteInv
<1>4. CASE UNCHANGED treeVars
  <2>1. Order' /\ Meets' /\ Homes' /\ HeldPaths'
    BY <1>1, <1>4 DEF treeVars, Order, Meets, Homes, HeldPaths, Rs, Received, Active, Handles, Held, Path
  <2>2. Rs' = Rs /\ \A r \in Rs : Writer(r)' = Writer(r) /\ Spoiled(r)' = Spoiled(r) /\ Stage(r)' = Stage(r)
    BY <1>4 DEF treeVars, Rs, Writer, Spoiled, Stage, Path, Changes, Through, Handles, Held, InPlace, Refuses, Wrote
  <2>3. Stages'  BY <1>1, <2>2 DEF Stages
  <2>4. QED  BY <2>1, <2>3 DEF WriteInv
<1>5. QED  BY <1>1, <1>2, <1>3, <1>4, StepsInTree

LEMMA WriteInvariant == Spec /\ []OnePath => []WriteInv
<1>1. Init => WriteInv  BY WriteInitially DEF Init
<1>2. TreeInv /\ WriteInv /\ [Next]_vars /\ OnePath' => WriteInv'  BY WriteInvStep
<1>3. QED  BY <1>1, <1>2, TreeInvariant, PTL DEF Spec

\* A PUT or POST that was answered with success is what a server has at its path
\* until another request changes it, for any resources, requests and number of
\* workers, as long as no resource has two paths.  (With two, a POST to the one
\* writes it over what has been made at the other since.)
THEOREM LastWriteHolds == Spec /\ []OnePath => []LastWriteStands
<1>1. TreeInv /\ WriteInv => LastWriteStands
  <2> SUFFICES ASSUME TreeInv, WriteInv, NEW r \in Rs, Wrote(r), Path(r) # Rd,
                      \A q \in worker[r].met : script[q].method = "GET",
                      \A q \in Rs : q > r => ~Rewrites(q, r)
               PROVE  Path(r) \in DOMAIN tree /\ object[tree[Path(r)]].payload = r
    BY DEF LastWriteStands
  <2>1. ~Spoiled(r)  BY DEF Spoiled, Rewrites
  <2>2. Stage(r)  BY <2>1 DEF WriteInv, Stages, Writer, Wrote
  <2>3. QED  BY <2>2 DEF Stage, InPlace, Held
<1>2. QED  BY <1>1, TreeInvariant, WriteInvariant, PTL

-----------------------------------------------------------------------------
(* Where no resource has two paths.                                        *)

\* No POST is for a path below that of a resource that answers it with itself.
NoneBelow ==
  \A r \in Rs : script[r].method = "POST" =>
    \A i \in DOMAIN Resources :
      Resources[i].class \in Selves /\ IsPrefix(Resources[i].path, Path(r)) => Path(r) = Resources[i].path

\* Such a resource stays where the server was made with it.
SelvesStay ==
  \A x \in DOMAIN object : object[x].class \in Selves =>
    x \in DOMAIN Resources /\ object[x].path = Resources[x].path /\ Resources[x].class \in Selves

\* What is about to be added is new: no path has it, and no other worker.
AddsNew(r) ==
  /\ Held(r).class = "basic"
  /\ \A p \in DOMAIN tree : tree[p] # worker[r].object
  /\ \A q \in Rs : q # r /\ Handles(q) => worker[q].object # worker[r].object
HeldClass(r) ==
  /\ worker[r].pc = "callback" => Held(r).class = "separate"
  /\ worker[r].pc = "insert" => Held(r).class = "rd"
  /\ script[r].method = "POST" /\ worker[r].create => Held(r).class \notin Selves
AddInv ==
  /\ NoneBelow /\ Homes /\ SelvesStay
  /\ \A r \in Rs : Handles(r) => HeldClass(r)
  /\ \A r \in Rs : Adds(r) => AddsNew(r)

LEMMA SelfIsNotRoot ==
  ASSUME NEW i \in DOMAIN Resources, Resources[i].class \in Selves
  PROVE  Resources[i].path # Root
<1>1. PICK j \in DOMAIN Resources : Resources[j] = [class |-> "root", path |-> Root]  BY TreeAssumption
<1>2. i # j  BY <1>1 DEF Selves
<1>3. QED  BY <1>1, <1>2, TreeAssumption

\* Worker r adds no resource that answers with itself.
LEMMA SelfIsNotAdded ==
  ASSUME Types, AddInv, NEW r \in Rs, Handles(r), script[r].method = "POST", Held(r).class \in Selves
  PROVE  ~worker[r].create /\ Held(r).path # Root
<1>1. worker[r].object \in DOMAIN object  BY DEF Types
<1>2. QED  BY <1>1, SelfIsNotRoot DEF AddInv, HeldClass, SelvesStay, Held

\* What a step leaves in the tree.
LEMMA RangeMoves ==
  ASSUME Types, NEW r \in Rs, Does(r), NEW p \in DOMAIN tree'
  PROVE  \/ \E o \in DOMAIN tree : tree'[p] = tree[o]
         \/ Puts(r) /\ tree'[p] = worker[r].object
<1>1. CASE tree' = tree  BY <1>1
<1>2. CASE Puts(r)
  <2>1. worker[r].object \in DOMAIN object  BY <1>2 DEF Puts, Turns, Handles, Types
  <2>2. PICK q \in Seq(Segments) : Placed(q, worker[r].object)
    BY <1>2, <2>1, PathType, ObjectType DEF Puts, At, Held
  <2>3. QED  BY <1>2, <2>1, <2>2, PlacedIs
<1>3. CASE Removes(r)  BY <1>3 DEF Removes
<1>4. QED
  BY <1>1, <1>2, <1>3 DEF Does, Kinds, TreeKinds, Still, Quits, Dies, Looks, Gets, Posts, Takes, Waits, Stores, Makes, Writes

LEMMA DoesSelves ==
  ASSUME Types, AddInv, NEW r \in Rs, Does(r)
  PROVE  SelvesStay'
<1>1. Effects  BY DoesEffects
<1>2. ASSUME NEW x \in DOMAIN object, object'[x].class \in Selves
      PROVE  x \in DOMAIN Resources /\ object'[x].path = Resources[x].path /\ Resources[x].class \in Selves
  <2>1. object[x].class \in Selves  BY <1>1, <1>2 DEF Effects
  <2>2. CASE object'[x].path = object[x].path  BY <2>1, <2>2 DEF AddInv, SelvesStay
  <2>3. CASE Puts(r) /\ worker[r].object = x /\ (worker[r].create \/ Held(r).path = Root)
    <3>1. Adds(r)  BY <2>3 DEF Puts, Turns, Adds
    <3>2. QED  BY <2>1, <2>3, <3>1 DEF AddInv, AddsNew, Held, Selves
  <2>4. QED  BY <2>2, <2>3, PathMoves
<1>3. ASSUME NEW x \in DOMAIN object', x \notin DOMAIN object  PROVE object'[x].class = "basic"
  <2>1. CASE Makes(r)  BY <1>3, <2>1, MadeIs DEF Makes, NewObject
  <2>2. CASE Writes(r)
    <3>1. worker[r].object \in DOMAIN object  BY <2>2 DEF Writes, Handles, Types
    <3>2. QED  BY <1>3, <2>2, <3>1, HandledIs DEF Writes
  <2>3. CASE Puts(r)
    <3>1. worker[r].object \in DOMAIN object  BY <2>3 DEF Puts, Turns, Handles, Types
    <3>2. DOMAIN object' = DOMAIN object  BY <2>3, <3>1, AtIs, PathType DEF Puts, At
    <3>3. QED  BY <1>3, <3>2
  <2>4. QED
    BY <1>3, <2>1, <2>2, <2>3 DEF Does, Kinds, TreeKinds, Still, Quits, Dies, Looks, Gets, Posts, Takes, Waits, Stores, Removes
<1>4. QED  BY <1>2, <1>3 DEF SelvesStay, Selves

\* A worker that is not r keeps its resource, and the resource its class.
LEMMA OtherHolds ==
  ASSUME Types, NEW r \in Rs, Does(r), NEW q \in Rs, q # r, Handles(q)'
  PROVE  /\ worker'[q] = worker[q] /\ Handles(q) /\ worker[q].object \in DOMAIN object
         /\ Held(q)'.class = Held(q).class
<1>1. worker'[q] = worker[q] /\ Handles(q) /\ worker[q].object \in DOMAIN object
  BY DEF Does, Moves, Handles, Types
<1>2. QED  BY <1>1, DoesEffects DEF Effects, Held

LEMMA DoesClass ==
  ASSUME Types, RootStands, AddInv, NEW r \in Rs, Does(r), NEW q \in Rs, Handles(q)'
  PROVE  HeldClass(q)'
<1>1. Moves(r) /\ Rs' = Rs /\ script' = script  BY DEF Does, Rs
<1>2. CASE q # r
  BY <1>1, <1>2, OtherHolds DEF AddInv, HeldClass
<1>3. CASE q = r /\ (Waits(r) \/ Stores(r) \/ Writes(r))
  <2>1. Handles(r) /\ Keeps(r)  BY <1>3 DEF Waits, Stores, Writes, Turns, Handles
  <2>2. Held(r)'.class = Held(r).class
    BY <2>1, DoesEffects DEF Keeps, Effects, Held, Types
  <2>3. /\ worker'[r].pc = "callback" => Held(r).class = "separate"
        /\ worker'[r].pc = "insert" => Held(r).class = "rd"
    BY <1>3 DEF Waits, Stores, Writes, Turns
  <2>4. QED  BY <1>1, <1>3, <2>1, <2>2, <2>3 DEF Keeps, AddInv, HeldClass
<1>4. CASE q = r /\ Makes(r)
  <2>1. Held(r)' = NewObject("basic", Root, r)  BY <1>4, MadeIs DEF Makes, Held
  <2>2. Held(r)'.class = "basic"  BY <2>1 DEF NewObject
  <2>3. QED  BY <1>4, <2>2 DEF Makes, HeldClass, Selves
<1>5. CASE q = r /\ Gets(r)
  BY <1>1, <1>5 DEF Gets, Turns, HeldClass
<1>6. CASE q = r /\ Takes(r)
  <2>1. PICK k \in worker[r].keys :
          /\ worker[r].keys = {k} /\ IsPrefix(k, Path(r)) /\ worker[r].create = (k # Path(r))
          /\ script[r].method = "POST"
    BY <1>6 DEF Takes, Turns, RootStands
  <2>2. k \in DOMAIN tree /\ worker'[r].object = tree[k] /\ object' = object /\ worker'[r].create = worker[r].create
    BY <1>6, <2>1 DEF Takes, Still
  <2>3. tree[k] \in DOMAIN object /\ object[tree[k]].path = k  BY <2>2 DEF Types, AddInv, Homes
  <2>4. ASSUME object[tree[k]].class \in Selves  PROVE k = Path(r)
    <3>1. tree[k] \in DOMAIN Resources /\ Resources[tree[k]].path = k /\ Resources[tree[k]].class \in Selves
      BY <2>3, <2>4 DEF AddInv, SelvesStay
    <3>2. QED  BY <2>1, <3>1 DEF AddInv, NoneBelow
  <2>5. QED  BY <1>6, <2>1, <2>2, <2>4 DEF Takes, Turns, HeldClass, Held
<1>7. Quits(r) \/ Dies(r) \/ Looks(r) \/ Posts(r) \/ Puts(r) \/ Removes(r) => q # r
  BY DEF Quits, Dies, Looks, Posts, Puts, Removes, Turns, Handles
<1>8. QED
  BY <1>2, <1>3, <1>4, <1>5, <1>6, <1>7 DEF Does, Kinds, TreeKinds

LEMMA DoesAdds ==
  ASSUME Types, RootStands, AddInv, NEW r \in Rs, Does(r), NEW q \in Rs, Adds(q)'
  PROVE  AddsNew(q)'
<1>1. Moves(r) /\ Rs' = Rs /\ script' = script  BY DEF Does, Rs
<1>2. \A p \in DOMAIN tree : tree[p] \in DOMAIN object  BY DEF Types
<1>3. CASE q = r /\ Makes(r)
  <2>1. /\ Held(r)' = NewObject("basic", Root, r) /\ worker'[r].object = Len(object) + 1
        /\ Len(object) + 1 \notin DOMAIN object /\ tree' = tree
    BY <1>3, MadeIs DEF Makes, Held
  <2>2. Held(r)'.class = "basic"  BY <2>1 DEF NewObject
  <2>3. QED  BY <1>1, <1>2, <1>3, <2>1, <2>2, OtherHolds DEF AddsNew
<1>4. ~(q = r /\ (Stores(r) \/ Writes(r)))
  <2> SUFFICES ASSUME q = r, Stores(r) \/ Writes(r)  PROVE FALSE
    OBVIOUS
  <2>1. Handles(r) /\ Keeps(r) /\ script[r].method = "POST" /\ ~Puts(r)
    BY <1>1 DEF Stores, Writes, Turns, Handles, Adds, Puts
  <2>2. worker[r].object \in DOMAIN object  BY <2>1 DEF Types
  <2>3. Held(r).class \in Selves
    BY <2>1 DEF Stores, Writes, Turns, AddInv, HeldClass, Selves
  <2>4. Held(r)'.path = Held(r).path  BY <2>1, <2>2, PathMoves DEF Keeps, Held
  <2>5. QED  BY <2>1, <2>3, <2>4, SelfIsNotAdded DEF Adds, Keeps
<1>5. CASE q # r
  <2>1. /\ worker'[q] = worker[q] /\ Handles(q) /\ worker[q].object \in DOMAIN object
        /\ Held(q)'.class = Held(q).class
    BY <1>5, OtherHolds DEF Adds, Handles
  <2>2. Adds(q)
    <3>1. ASSUME Puts(r), Path(r) = Root  PROVE FALSE
      BY <3>1 DEF Puts, Turns, Handles, RootStands
    <3>2. Held(q)'.path = Root => Held(q).path = Root  BY <2>1, <3>1, PathMoves DEF Held
    <3>3. QED  BY <1>1, <2>1, <3>2 DEF Adds
  <2>3. Held(q).class = "basic" /\ (\A p \in DOMAIN tree : tree[p] # worker[q].object)
        /\ \A s \in Rs : s # q /\ Handles(s) => worker[s].object # worker[q].object
    BY <2>2 DEF AddInv, AddsNew
  <2>4. ASSUME NEW p \in DOMAIN tree'  PROVE tree'[p] # worker[q].object
    <3>1. Puts(r) => worker[r].object # worker[q].object  BY <1>5, <2>3 DEF Puts, Turns, Handles
    <3>2. QED  BY <2>3, <3>1, RangeMoves
  <2>5. Handles(r)' => worker'[r].object # worker[q].object
    <3>1. CASE Handles(r) /\ Keeps(r)  BY <1>5, <2>3, <3>1 DEF Keeps
    <3>2. CASE Gets(r) \/ Takes(r)  BY <2>3, <3>2 DEF Gets, Takes
    <3>3. CASE Makes(r)
      <4>1. Len(object) + 1 \notin DOMAIN object  BY <3>3, MadeIs DEF Makes
      <4>2. QED  BY <2>1, <3>3, <4>1 DEF Makes
    <3>4. Quits(r) \/ Dies(r) \/ Looks(r) \/ Posts(r) \/ Puts(r) \/ Removes(r) => ~Handles(r)'
      BY DEF Quits, Dies, Looks, Posts, Puts, Removes, Turns, Handles
    <3>5. Waits(r) \/ Stores(r) \/ Writes(r) => Handles(r) /\ Keeps(r)
      BY DEF Waits, Stores, Writes, Turns, Handles
    <3>6. QED  BY <3>1, <3>2, <3>3, <3>4, <3>5 DEF Does, Kinds, TreeKinds
  <2>6. ASSUME NEW s \in Rs, s # q, Handles(s)'  PROVE worker'[s].object # worker'[q].object
    <3>1. CASE s = r  BY <2>1, <2>5, <2>6, <3>1
    <3>2. CASE s # r  BY <2>1, <2>3, <2>6, <3>2, OtherHolds
    <3>3. QED  BY <3>1, <3>2
  <2>7. QED  BY <1>1, <2>1, <2>3, <2>4, <2>6 DEF AddsNew
<1>6. Quits(r) \/ Dies(r) \/ Looks(r) \/ Gets(r) \/ Posts(r) \/ Takes(r) \/ Waits(r) \/ Puts(r) \/ Removes(r) => q # r
  BY DEF Quits, Dies, Looks, Gets, Posts, Takes, Waits, Puts, Removes, Turns, Adds
<1>7. QED
  BY <1>3, <1>4, <1>5, <1>6 DEF Does, Kinds, TreeKinds

\* The invariant is inductive.
LEMMA AddInvStep ==
  ASSUME TreeInv, AddInv, [Next]_vars
  PROVE  AddInv'
<1>1. Types /\ RootStands  BY DEF TreeInv
<1>2. ASSUME NEW r \in Rs, Receive(r)  PROVE AddInv'
  <2>1. Still /\ script' = script /\ Rs' = Rs /\ worker'[r].pc = "route"  BY <1>1, <1>2, ReceiveFacts DEF Rs
  <2>2. \A q \in Rs : Path(q)' = Path(q)  BY <2>1 DEF Path
  <2>3. \A q \in Rs : q # r => /\ worker'[q].pc = worker[q].pc /\ worker'[q].object = worker[q].object
                               /\ worker'[q].create = worker[q].create
    BY <1>1, <1>2, ReceiveFacts
  <2>4. NoneBelow' /\ Homes' /\ SelvesStay'
    BY <2>1, <2>2 DEF AddInv, NoneBelow, Homes, SelvesStay, Still
  <2>5. ASSUME NEW q \in Rs, Handles(q)'  PROVE HeldClass(q)'
    <3>1. q # r  BY <2>1, <2>5 DEF Handles
    <3>2. QED  BY <2>1, <2>3, <2>5, <3>1 DEF AddInv, Handles, HeldClass, Held, Still
  <2>6. ASSUME NEW q \in Rs, Adds(q)'  PROVE AddsNew(q)'
    <3>1. q # r  BY <2>1, <2>6 DEF Adds
    <3>2. AddsNew(q)  BY <2>1, <2>3, <2>6, <3>1 DEF AddInv, Adds, Held, Still
    <3>3. \A s \in Rs : Handles(s)' => s # r /\ Handles(s)  BY <2>1, <2>3 DEF Handles
    <3>4. QED  BY <2>1, <2>3, <3>1, <3>2, <3>3 DEF AddsNew, Held, Still
  <2>7. QED  BY <2>1, <2>4, <2>5, <2>6 DEF AddInv
<1>3. ASSUME NEW r \in Rs, Does(r)  PROVE AddInv'
  <2>1. script' = script /\ Rs' = Rs  BY <1>3 DEF Does, Rs
  <2>2. NoneBelow'  BY <2>1 DEF AddInv, NoneBelow, Path
  <2>3. Homes'
    <3>1. Homes /\ (Adds(r) => \A p \in DOMAIN tree : tree[p] # worker[r].object)  BY DEF AddInv, AddsNew
    <3>2. QED  BY <1>1, <1>3, <3>1, DoesHomes
  <2>4. QED  BY <1>1, <1>3, <2>1, <2>2, <2>3, DoesSelves, DoesClass, DoesAdds DEF AddInv
<1>4. CASE UNCHANGED treeVars
  BY <1>4 DEF treeVars, AddInv, NoneBelow, Homes, SelvesStay, HeldClass, Adds, AddsNew, Rs, Handles, Held, Path
<1>5. QED  BY <1>1, <1>2, <1>3, <1>4, StepsInTree

LEMMA AddInitially == ASSUME TreeInit, NoneBelow PROVE AddInv
<1>1. \A r \in Rs : worker[r].pc = "new"  BY DEF TreeInit, NewWorker
<1>2. Homes  BY WriteInitially DEF WriteInv
<1>3. SelvesStay
  <2>1. DOMAIN object = DOMAIN Resources  BY TreeAssumption DEF TreeInit
  <2>2. \A i \in DOMAIN Resources : object[i].path = Resources[i].path /\ object[i].class = Resources[i].class
    BY DEF TreeInit, NewObject
  <2>3. QED  BY <2>1, <2>2 DEF SelvesStay
<1>4. QED  BY <1>1, <1>2, <1>3 DEF AddInv, Handles, Adds

\* No resource gets a second path in a server where no POST is for a path below
\* that of a resource that answers it with itself: what a handler returns is put at
\* the path of its request only if it is new.
THEOREM OnePathHolds == Spec /\ NoneBelow => []OnePath
<1>1. Init /\ NoneBelow => AddInv  BY AddInitially DEF Init
<1>2. TreeInv /\ AddInv /\ [Next]_vars => AddInv'  BY AddInvStep
<1>3. AddInv => OnePath  BY DEF AddInv, Homes, OnePath
<1>4. QED  BY <1>1, <1>2, <1>3, TreeInvariant, PTL DEF Spec

\* So there what was written stays.
THEOREM LastWriteHoldsThere == Spec /\ NoneBelow => []LastWriteStands
BY OnePathHolds, LastWriteHolds, PTL

-----------------------------------------------------------------------------
\* What a worker has for a result is replaced only by what ends it.
LEMMA TreeCode ==
  ASSUME Types, NEW r \in Rs, TreeStep(r)
  PROVE  worker'[r].pc = "done" \/ worker'[r].code = worker[r].code
<1>1. worker \in [Rs -> Workers]  BY DEF Types
<1>2. CASE Receive(r)  BY <1>2, ReceiveFacts
<1>3. CASE \E code : Answer(r, code)  BY <1>1, <1>3 DEF Answer, Workers
<1>4. CASE \E pc : Goto(r, pc)  BY <1>1, <1>4 DEF Goto, Workers
<1>5. CASE \E pc, x : worker' = [worker EXCEPT ![r].pc = pc, ![r].object = x]  BY <1>1, <1>5 DEF Workers
<1>6. CASE \E pc, keys : worker' = [worker EXCEPT ![r].pc = pc, ![r].keys = keys]  BY <1>1, <1>6 DEF Workers
<1>7. CASE \E keys : worker' = [worker EXCEPT ![r].keys = keys]  BY <1>1, <1>7 DEF Workers
<1>8. CASE RoutePost(r)  BY <1>1, <1>8 DEF RoutePost, Workers
<1>9. CASE Discover(r)
  <2>1. CASE \E p \in worker[r].keys : worker' = [worker EXCEPT ![r].keys = @ \ {p}]
    BY <1>1, <2>1 DEF Workers
  <2>2. QED  BY <1>3, <1>4, <1>9, <2>1 DEF Discover, Die
<1>10. CASE RouteGet(r) \/ RouteDelete(r) \/ RoutePut(r)
  BY <1>3, <1>5, <1>6, <1>10 DEF RouteGet, RouteDelete, RoutePut, Find
<1>11. CASE BeginPost(r)
  BY <1>3, <1>4, <1>5, <1>11 DEF BeginPost, Die
<1>12. CASE RenderNothing(r) \/ RenderLater(r) \/ Render(r)
  BY <1>3, <1>4, <1>5, <1>12 DEF RenderNothing, RenderLater, Render
<1>13. CASE FinishGet(r) \/ GetUnacceptable(r) \/ FinishPut(r) \/ FinishAdd(r) \/ FinishEdit(r) \/ FinishDelete(r)
  BY <1>3, <1>4, <1>13 DEF FinishGet, GetUnacceptable, FinishPut, FinishAdd, FinishEdit, FinishDelete, Die
<1>14. QED
  BY <1>2, <1>8, <1>9, <1>10, <1>11, <1>12, <1>13 DEF TreeStep

\* An update's result stays CHANGED.
LEMMA ChangedStays ==
  ASSUME Types, RootStands, Updated, [Next]_vars, NEW r \in Rs, Misplaces(r), worker[r].code = "CHANGED"
  PROVE  /\ worker'[r].code = "CHANGED"
         /\ worker'[r].pc = "done" \/ (worker'[r].pc = "finish" /\ Held(r)'.class = "rd")
<1>1. worker[r].pc = "done" \/ (worker[r].pc = "finish" /\ Held(r).class = "rd")  BY DEF Updated
<1>2. worker[r].pc = "finish" => worker[r].object \in DOMAIN object  BY DEF Types, Handles
<1>3. CASE UNCHANGED treeVars  BY <1>1, <1>3 DEF treeVars, Held
<1>4. ASSUME NEW q \in Rs, Receive(q)  PROVE worker'[r].code = "CHANGED" /\ (worker'[r].pc = "done" \/ (worker'[r].pc = "finish" /\ Held(r)'.class = "rd"))
  <2>1. q # r  BY <1>1, <1>4, ReceiveFacts
  <2>2. QED  BY <1>1, <1>4, <2>1, ReceiveFacts DEF Still, Held
<1>5. ASSUME NEW q \in Rs, Does(q), q # r
      PROVE  worker'[r].code = "CHANGED" /\ (worker'[r].pc = "done" \/ (worker'[r].pc = "finish" /\ Held(r)'.class = "rd"))
  <2>1. worker'[r] = worker[r]  BY <1>5 DEF Does, Moves
  <2>2. Effects  BY <1>5, DoesEffects
  <2>3. QED  BY <1>1, <1>2, <2>1, <2>2 DEF Effects, Held
<1>6. ASSUME TreeStep(r), ~Receive(r)  PROVE worker'[r].code = "CHANGED" /\ worker'[r].pc = "done"
  <2>1. Does(r)  BY <1>6, TreeStepIs
  <2>2. worker[r].pc = "finish" /\ Held(r).class = "rd"  BY <1>1, <2>1 DEF Does, Active
  <2>3. script[r].method = "POST"  BY DEF Misplaces
  <2>4. Style(Held(r).class, "POST") = "directory"  BY <2>2, StyleFacts
  <2>5. Answer(r, "CHANGED")
    BY <1>6, <2>2, <2>3, <2>4 DEF TreeStep, RouteGet, RouteDelete, RoutePut, RoutePost, BeginPost, RenderNothing, RenderLater,
       Render, FinishGet, GetUnacceptable, FinishPut, FinishAdd, FinishEdit, FinishDelete, Discover
  <2>6. QED  BY <2>5, CodeMoves DEF Answer, Pcs, Codes
<1>7. ~Handler(r)
  <2>1. worker[r].pc # "render" /\ worker[r].pc # "insert"  BY <1>1
  <2>2. QED
    BY <2>1 DEF Handler, RegisterWithoutBody, RegisterUnformatted, RegisterRefused, RegisterId, RegisterInsert, RegisterUnparsed,
       Unreachable, NoneNamed, Update, Delete, NotForAll, Unacceptable, Search, Searches, Registers, Calls
<1>8. QED
  <2>1. CASE \E q \in Rs : TreeStep(q) \/ Handler(q)
    <3>1. PICK q \in Rs : TreeStep(q) \/ Handler(q)  BY <2>1
    <3>2. CASE q = r  BY <1>4, <1>6, <1>7, <3>1, <3>2
    <3>3. CASE q # r  BY <1>4, <1>5, <3>1, <3>3, TreeStepIs, HandlerIs
    <3>4. QED  BY <3>2, <3>3
  <2>2. QED  BY <1>3, <2>1 DEF Next, vars, treeVars, Purge, Tick

\* No other worker has it.
LEMMA UpdatedStep == ASSUME Types, RootStands, Updated, [Next]_vars PROVE Updated'
<1>1. SUFFICES ASSUME NEW r \in Rs, Misplaces(r), worker'[r].code = "CHANGED", worker[r].code # "CHANGED"
               PROVE  worker'[r].pc = "done" \/ (worker'[r].pc = "finish" /\ Held(r)'.class = "rd")
  <2>1. script' = script
    BY StepsInTree, ReceiveFacts DEF Does, treeVars
  <2>2. Rs' = Rs /\ \A r \in Rs : Misplaces(r)' = Misplaces(r)  BY <2>1 DEF Rs, Misplaces
  <2>3. QED  BY <2>2, ChangedStays DEF Updated
<1>2. CASE TreeStep(r)  BY <1>1, <1>2, TreeCode
<1>3. CASE Handler(r)
  <2>1. script[r].method = "POST"  BY <1>1 DEF Misplaces
  <2>2. CASE Update(r)
    <3>1. Result(r, "CHANGED") /\ Calls(r, "rd", "POST") /\ object' = object  BY <2>2 DEF Update
    <3>2. worker'[r].pc = "finish" /\ Keeps(r)  BY <3>1, ResultMoves DEF Codes
    <3>3. QED  BY <3>1, <3>2 DEF Calls, Held, Keeps
  <2>3. CASE NotForAll(r)  BY <2>1, <2>3 DEF NotForAll, Calls
  <2>4. CASE Delete(r)  BY <2>1, <2>4 DEF Delete, Calls
  <2>5. CASE RegisterWithoutBody(r)
    <3>1. worker'[r].code = worker[r].code  BY <2>5, GotoMoves DEF RegisterWithoutBody, Die, Pcs
    <3>2. QED  BY <1>1, <3>1
  <2>6. CASE RegisterId(r)
    <3>1. worker'[r].code = worker[r].code  BY <2>6, GotoMoves DEF RegisterId, Pcs
    <3>2. QED  BY <1>1, <3>1
  <2>7. CASE \E code \in Codes \ {"CHANGED"} : Result(r, code)
    BY <1>1, <2>7, ResultMoves
  <2>8. QED
    BY <1>3, <2>2, <2>3, <2>4, <2>5, <2>6, <2>7 DEF Handler, RegisterUnformatted, RegisterRefused, RegisterInsert, RegisterUnparsed,
       Unreachable, NoneNamed, Unacceptable, Search, Codes
<1>4. CASE \E q \in Rs : q # r /\ (Receive(q) \/ Does(q))
  <2>1. worker'[r].code = worker[r].code  BY <1>4, ReceiveFacts DEF Does, Moves
  <2>2. QED  BY <1>1, <2>1
<1>5. CASE UNCHANGED treeVars  BY <1>1, <1>5 DEF treeVars
<1>6. QED
  <2>1. CASE \E q \in Rs : TreeStep(q) \/ Handler(q)
    <3>1. PICK q \in Rs : TreeStep(q) \/ Handler(q)  BY <2>1
    <3>2. CASE q = r  BY <1>2, <1>3, <3>1, <3>2
    <3>3. CASE q # r  BY <1>4, <3>1, <3>3, TreeStepIs, HandlerIs
    <3>4. QED  BY <3>2, <3>3
  <2>2. QED  BY <1>5, <2>1 DEF Next, vars, treeVars, Purge, Tick

\* An update that has misplaced a registration is not undone.
LEMMA PlacedBefore == ASSUME Types, RootStands, Updated, [Next]_vars, WellPlaced' PROVE WellPlaced
<1>1. script' = script  BY StepsInTree, ReceiveFacts DEF Does, treeVars
<1>2. Rs' = Rs /\ \A r \in Rs : Misplaces(r)' = Misplaces(r)  BY <1>1 DEF Rs, Misplaces
<1>3. QED  BY <1>2, ChangedStays DEF WellPlaced

-----------------------------------------------------------------------------
\* gen_next_loc_path finds an id that is above all locations.
LEMMA NextIdIsAbove ==
  ASSUME Collection
  PROVE  NextId \in Nat /\ (WellPlaced => \A d \in db : d.loc < NextId)
<1>0. \A d \in db : d.id \in Int /\ d.loc \in Int  BY DEF Collection, Documents
<1>1. CASE \E d \in db : d.id = Word
  <2>1. NextId = 0  BY <1>1 DEF NextId
  <2>2. ~WellPlaced  BY <1>0, <1>1 DEF Collection, Apart, Word
  <2>3. QED  BY <2>1, <2>2
<1>2. CASE ~\E d \in db : d.id = Word
  <2> DEFINE T == {d.id : d \in db}
             S == T \cup {0}
  <2>1. NextId = Max(S) + 1  BY <1>2 DEF NextId
  <2>2. IsFiniteSet(S) /\ S # {} /\ S \subseteq Int
    <3>1. IsFiniteSet(T)
      <4>1. IsFiniteSet(db)  BY DEF Collection
      <4> DEFINE f == [d \in db |-> d.id]
      <4>2. f \in Surjection(db, T)  BY DEF Surjection
      <4> HIDE DEF f, T
      <4>3. QED  BY <4>1, <4>2, FS_Surjection
    <3>2. T \subseteq Int  BY <1>0
    <3> HIDE DEF T
    <3>3. QED  BY <3>1, <3>2, FS_AddElement
  <2>3. 0 \in S /\ \A d \in db : d.id \in S  OBVIOUS
  <2> HIDE DEF S
  <2>4. \E m \in S : \A x \in S : x <= m  BY <2>2, Greatest
  <2>5. Max(S) \in S /\ \A x \in S : x <= Max(S)  BY <2>2, <2>4 DEF Max
  <2>6. Max(S) \in Int /\ 0 <= Max(S) /\ \A d \in db : d.id <= Max(S)  BY <2>2, <2>3, <2>5
  <2>7. NextId \in Nat /\ \A d \in db : d.id < NextId
    <3> HIDE DEF T
    <3>1. QED  BY <1>0, <2>1, <2>6
  <2>8. ASSUME WellPlaced  PROVE \A d \in db : d.loc < NextId
    BY <1>0, <2>7, <2>8 DEF Collection, Apart
  <2>9. QED  BY <2>7, <2>8
<1>3. QED  BY <1>1, <1>2

\* Steps on the tree leave the collection alone.
LEMMA TreeStepCollection ==
  ASSUME Types, Collection, Locked, NEW r \in Rs, Receive(r) \/ (Does(r) /\ TreeKinds(r)), UNCHANGED dbVars,
         WellPlaced' => WellPlaced
  PROVE  Collection' /\ Locked'
<1>1. Rs' = Rs  BY ReceiveFacts DEF Rs, Does
<1>2. \A q \in Rs : worker'[q].pc = "insert" <=> worker[q].pc = "insert"
  <2>1. CASE Receive(r)
    BY <2>1, ReceiveFacts
  <2>2. CASE Does(r) /\ TreeKinds(r)
    <3>1. worker[r].pc # "insert" /\ worker'[r].pc # "insert"
      BY <2>2 DEF TreeKinds, Turns, Quits, Dies, Looks, Gets, Posts, Takes, Waits, Makes, Writes, Puts, Removes
    <3>2. QED  BY <2>2, <3>1 DEF Does, Moves
  <2>3. QED  BY <2>1, <2>2
<1>3. Collection'  BY DEF Collection, Apart, dbVars
<1>4. Locked'  BY <1>1, <1>2 DEF Locked, dbVars
<1>5. QED  BY <1>3, <1>4

\* The handlers keep the locations apart.
LEMMA HandlerCollection ==
  ASSUME Types, Collection, Locked, NEW r \in Rs, Handler(r), WellPlaced' => WellPlaced
  PROVE  Collection' /\ Locked'
<1>0. Does(r)  BY HandlerIs
<1>1. Rs' = Rs /\ script' = script /\ Moves(r) /\ r \in Rs \ {0} /\ 0 \notin Rs
  BY <1>0, LenProperties DEF Does, Rs, Types
<1>2. script[r] \in Requests  BY PathType
<1>3. \A d \in db : d \in Documents /\ d.id \in Int /\ d.loc \in Int  BY DEF Collection, Documents
<1>4. IsFiniteSet(db) /\ now \in 0..MaxTime /\ next \in Nat  BY DEF Collection
<1>5. ASSUME worker[r].pc # "insert", worker'[r].pc # "insert", lock' = lock, next' = next, now' = now,
             db' \subseteq Documents, IsFiniteSet(db'), WellPlaced' => Apart',
             WellPlaced' => \A d \in db' : \E e \in db : d.loc = e.loc
      PROVE  Collection' /\ Locked'
  <2>1. \A q \in Rs : worker'[q].pc = "insert" <=> worker[q].pc = "insert"  BY <1>1, <1>5 DEF Moves
  <2>2. Collection'  BY <1>4, <1>5 DEF Collection
  <2>3. Locked'  BY <1>1, <1>5, <2>1 DEF Locked
  <2>4. QED  BY <2>2, <2>3
<1>6. CASE RegisterWithoutBody(r) \/ RegisterUnformatted(r) \/ RegisterRefused(r) \/ Unreachable(r) \/ NoneNamed(r)
           \/ NotForAll(r) \/ Unacceptable(r) \/ Search(r)
  <2>1. worker[r].pc = "render" /\ UNCHANGED dbVars
    BY <1>6 DEF RegisterWithoutBody, RegisterUnformatted, RegisterRefused, Unreachable, NoneNamed, NotForAll, Unacceptable, Search,
       Searches, Registers, Calls
  <2>2. worker'[r].pc # "insert"
    <3>1. CASE RegisterWithoutBody(r)  BY <3>1, GotoMoves DEF RegisterWithoutBody, Die, Pcs
    <3>2. CASE NotForAll(r)  BY <3>2, CodeMoves DEF NotForAll, Answer, Pcs, Codes
    <3>3. CASE \E code \in Codes : Result(r, code)  BY <3>3, ResultMoves
    <3>4. QED
      BY <1>6, <3>1, <3>2, <3>3 DEF RegisterUnformatted, RegisterRefused, Unreachable, NoneNamed, Unacceptable, Search, Codes
  <2>3. WellPlaced' => Apart'  BY <2>1 DEF dbVars, Apart, Collection
  <2>4. db' = db /\ lock' = lock /\ next' = next /\ now' = now  BY <2>1 DEF dbVars
  <2>5. QED  BY <1>3, <1>4, <1>5, <2>1, <2>2, <2>3, <2>4
<1>7. CASE RegisterId(r)
  <2>1. /\ worker'[r].pc = "insert" /\ lock = 0 /\ lock' = r /\ next' = NextId /\ db' = db /\ now' = now
    BY <1>7, GotoMoves DEF RegisterId, LockFree, Pcs
  <2>2. NextId \in Nat /\ (WellPlaced => \A d \in db : d.loc < NextId)  BY NextIdIsAbove
  <2>3. \A q \in Rs : worker'[q].pc = "insert" <=> q = r  BY <1>1, <2>1 DEF Moves, Locked
  <2>4. Collection'  BY <2>1, <2>2 DEF Collection, Apart
  <2>5. Locked'  BY <1>1, <2>1, <2>2, <2>3 DEF Locked
  <2>6. QED  BY <2>4, <2>5
<1>8. ASSUME worker[r].pc = "insert"
      PROVE  r = lock /\ (WellPlaced => \A d \in db : d.loc < next)
  BY <1>1, <1>8 DEF Locked
<1>9. ASSUME worker[r].pc = "insert", worker'[r].pc = "finish", lock' = 0, next' = next, now' = now,
             db' \subseteq Documents, IsFiniteSet(db'), WellPlaced' => Apart'
      PROVE  Collection' /\ Locked'
  <2>1. \A q \in Rs : worker'[q].pc # "insert"  BY <1>1, <1>8, <1>9 DEF Moves, Locked
  <2>2. Collection'  BY <1>4, <1>9 DEF Collection
  <2>3. Locked'  BY <1>1, <1>9, <2>1 DEF Locked
  <2>4. QED  BY <2>2, <2>3
<1>10. ASSUME worker[r].pc = "insert", worker'[r].pc = "finish", lock' = 0, next' = next, now' = now, db' = db
       PROVE  Collection' /\ Locked'
  <2>1. WellPlaced' => Apart'  BY <1>10 DEF Collection, Apart
  <2>2. QED  BY <1>3, <1>4, <1>9, <1>10, <2>1
<1>11. CASE RegisterInsert(r)
  <2> DEFINE new == [id |-> next, loc |-> next, ep |-> script[r].ep, time |-> now, by |-> r,
                     lt |-> IF script[r].lt = -1 THEN DefaultLifetime ELSE script[r].lt]
  <2>1. worker[r].pc = "insert" /\ lock' = 0 /\ next' = next /\ now' = now  BY <1>11 DEF RegisterInsert
  <2>2. worker'[r].pc = "finish"
    <3>1. PICK code \in Codes : Result(r, code)  BY <1>11 DEF RegisterInsert, Codes
    <3>2. QED  BY <3>1, ResultMoves
  <2>3. CASE db' = db \cup {new}
    <3>1. new \in Documents /\ new.id = next /\ new.loc = next
      <4>1. now \in Nat /\ script[r].lt \in Int /\ script[r].ep \in STRING /\ DefaultLifetime \in Int /\ next \in Int /\ r \in Nat
        <5>1. script[r].lt \in Int /\ script[r].ep \in STRING  BY <1>2 DEF Requests
        <5>2. r \in Nat  BY <1>1, RsAreNats
        <5>3. QED  BY <1>4, <5>1, <5>2, LifetimeAssumption
      <4>2. QED  BY <4>1 DEF Documents
    <3> HIDE DEF new
    <3>2. ASSUME WellPlaced'  PROVE Apart'
      <4>1. Apart /\ \A d \in db : d.loc < next  BY <1>8, <2>1, <3>2 DEF Collection
      <4>2. \A d \in db' : d = new \/ d \in db  BY <2>3
      <4>3. \A d \in db' : 0 <= d.loc /\ d.loc <= d.id  BY <1>4, <3>1, <4>1, <4>2 DEF Apart
      <4>4. \A d \in db : d.loc # new.loc  BY <1>3, <1>4, <3>1, <4>1
      <4>5. \A d, e \in db' : d.loc = e.loc => d = e  BY <4>1, <4>2, <4>4 DEF Apart
      <4>6. QED  BY <4>3, <4>5 DEF Apart
    <3>3. db' \subseteq Documents /\ IsFiniteSet(db')  BY <1>3, <1>4, <2>3, <3>1, FS_AddElement
    <3>4. QED  BY <1>9, <2>1, <2>2, <3>2, <3>3
  <2>4. CASE db' = db  BY <1>10, <2>1, <2>2, <2>4
  <2>5. QED  BY <1>11, <2>3, <2>4 DEF RegisterInsert
<1>12. CASE RegisterUnparsed(r)
  <2>1. worker'[r].pc = "finish"  BY <1>12, ResultMoves DEF RegisterUnparsed, Codes
  <2>2. QED  BY <1>10, <1>12, <2>1 DEF RegisterUnparsed
<1>13. CASE Update(r)
  <2>1. /\ worker[r].pc = "render" /\ lock' = lock /\ next' = next /\ now' = now
        /\ script[r].method = "POST" /\ Result(r, "CHANGED")
    BY <1>13 DEF Update, Calls
  <2>2. worker'[r].pc = "finish" /\ worker'[r].code = "CHANGED"  BY <2>1, ResultMoves DEF Codes
  <2>3. PICK d \in Named(r) : db' = (db \ {d}) \cup {Renewed(r, d)}  BY <1>13 DEF Update
  <2> DEFINE new == Renewed(r, d)
  <2>4. d \in db /\ d.loc \in DOMAIN Ids /\ script[r].path = Append(Rd, Ids[d.loc])  BY DEF Named
  <2>5. /\ new \in Documents
        /\ new.loc = IF script[r].res = -1 THEN d.loc ELSE script[r].res
        /\ new.id = IF script[r].resId = -1 THEN d.id ELSE script[r].resId
    <3>1. now \in Nat /\ script[r].lt \in Int /\ script[r].ep \in STRING /\ script[r].res \in Int /\ script[r].resId \in Int
      BY <1>2, <1>4, LifetimeAssumption DEF Requests
    <3>2. d \in Documents  BY <1>3, <2>4
    <3>3. QED  BY <3>1, <3>2 DEF Renewed, Documents
  <2> HIDE DEF new
  <2>6. ASSUME WellPlaced'  PROVE Apart' /\ new.loc = d.loc
    <3>1. ~Misplaces(r)  BY <1>1, <2>2, <2>6 DEF WellPlaced, Misplaces
    <3>2. script[r].res = -1 /\ script[r].resId \notin {Word} \cup 0..(d.loc - 1)  BY <2>1, <2>4, <3>1 DEF Misplaces
    <3>3. script[r].resId \in Nat \cup {-1, -2}  BY <1>2 DEF Requests
    <3>4. Apart  BY <2>6 DEF Collection
    <3>5. new.loc = d.loc /\ 0 <= new.loc /\ new.loc <= new.id
      BY <1>3, <2>4, <2>5, <3>2, <3>3, <3>4 DEF Apart, Word
    <3>6. \A e \in db' : e = new \/ (e \in db /\ e # d)  BY <2>3 DEF new
    <3>7. Apart'
      <4>1. \A e \in db' : 0 <= e.loc /\ e.loc <= e.id  BY <3>4, <3>5, <3>6 DEF Apart
      <4>2. \A e \in db : e # d => e.loc # new.loc  BY <2>4, <3>4, <3>5 DEF Apart
      <4>3. \A e, g \in db' : e.loc = g.loc => e = g  BY <3>4, <3>6, <4>2 DEF Apart
      <4>4. QED  BY <4>1, <4>3 DEF Apart
    <3>8. QED  BY <3>5, <3>7
  <2>7. db' \subseteq Documents /\ IsFiniteSet(db')
    <3>1. IsFiniteSet(db \ {d})  BY <1>4, FS_Subset
    <3>2. QED  BY <1>3, <2>3, <2>5, <3>1, FS_AddElement DEF new
  <2>8. WellPlaced' => \A e \in db' : \E g \in db : e.loc = g.loc  BY <2>3, <2>4, <2>6 DEF new
  <2>9. QED  BY <1>5, <2>1, <2>2, <2>6, <2>7, <2>8
<1>14. CASE Delete(r)
  <2>1. worker[r].pc = "render" /\ lock' = lock /\ next' = next /\ now' = now /\ db' \subseteq db
    BY <1>14 DEF Delete, Calls
  <2>2. worker'[r].pc = "finish"  BY <1>14, ResultMoves DEF Delete, Codes
  <2>3. WellPlaced' => Apart'  BY <2>1 DEF Collection, Apart
  <2>4. IsFiniteSet(db')  BY <1>4, <2>1, FS_Subset
  <2>5. QED  BY <1>3, <1>5, <2>1, <2>2, <2>3, <2>4
<1>15. QED
  BY <1>6, <1>7, <1>11, <1>12, <1>13, <1>14 DEF Handler

\* The invariant of a resource directory.
DirectoryInv == TreeInv /\ Updated /\ Collection /\ Locked

\* The invariant with the collection is inductive.
LEMMA DirectoryInvInductive ==
  /\ Init => DirectoryInv
  /\ DirectoryInv /\ [Next]_vars => DirectoryInv'
<1>1. ASSUME Init  PROVE DirectoryInv
  <2>1. TreeInv  BY <1>1, TreeInvInductive
  <2>2. \A r \in Rs : worker[r].pc = "new" /\ worker[r].code = "none"  BY <1>1 DEF Init, TreeInit, NewWorker
  <2>3. 0 \notin Rs  BY LenProperties DEF Rs
  <2>4. Updated  BY <2>2 DEF Updated
  <2>5. db = {} /\ lock = 0 /\ next = 0 /\ now = 0  BY <1>1 DEF Init
  <2>6. Collection  BY <2>5, FS_EmptySet, LifetimeAssumption DEF Collection, Apart
  <2>7. Locked  BY <2>2, <2>3, <2>5 DEF Locked
  <2>8. QED  BY <2>1, <2>4, <2>6, <2>7 DEF DirectoryInv
<1>2. ASSUME DirectoryInv, [Next]_vars  PROVE DirectoryInv'
  <2>1. TreeInv' /\ Types /\ RootStands /\ Updated /\ Collection /\ Locked
    BY <1>2, TreeInvInductive DEF DirectoryInv, TreeInv
  <2>2. Updated' /\ (WellPlaced' => WellPlaced)  BY <1>2, <2>1, UpdatedStep, PlacedBefore
  <2>3. ASSUME NEW r \in Rs, TreeStep(r), UNCHANGED dbVars  PROVE Collection' /\ Locked'
    BY <2>1, <2>2, <2>3, TreeStepIs, TreeStepCollection
  <2>4. ASSUME NEW r \in Rs, Handler(r)  PROVE Collection' /\ Locked'
    BY <2>1, <2>2, <2>4, HandlerCollection
  <2>5. ASSUME UNCHANGED treeVars, UNCHANGED <<lock, next>>, db' \subseteq db, now' \in 0..MaxTime
        PROVE  Collection' /\ Locked'
    <3>1. Rs' = Rs /\ worker' = worker /\ lock' = lock /\ next' = next  BY <2>5 DEF Rs, treeVars
    <3>2. IsFiniteSet(db')  BY <2>1, <2>5, FS_Subset DEF Collection
    <3>3. Collection'  BY <2>1, <2>2, <2>5, <3>1, <3>2 DEF Collection, Apart
    <3>4. Locked'  BY <2>1, <2>2, <2>5, <3>1 DEF Locked
    <3>5. QED  BY <3>3, <3>4
  <2>6. now \in 0..MaxTime /\ MaxTime \in Nat  BY <2>1, LifetimeAssumption DEF Collection
  <2>7. ASSUME Purge  PROVE Collection' /\ Locked'
    <3>1. UNCHANGED treeVars /\ UNCHANGED <<lock, next>> /\ now' = now /\ db' \subseteq db  BY <2>7 DEF Purge
    <3>2. QED  BY <2>5, <2>6, <3>1
  <2>8. ASSUME Tick  PROVE Collection' /\ Locked'
    <3>1. UNCHANGED treeVars /\ UNCHANGED <<lock, next>> /\ db' = db  BY <2>8 DEF Tick
    <3>2. now' \in 0..MaxTime  BY <2>6, <2>8 DEF Tick
    <3>3. QED  BY <2>5, <3>1, <3>2
  <2>9. ASSUME UNCHANGED vars  PROVE Collection' /\ Locked'
    <3>1. UNCHANGED treeVars /\ UNCHANGED <<lock, next>> /\ db' = db /\ now' = now  BY <2>9 DEF vars, dbVars
    <3>2. QED  BY <2>5, <2>6, <3>1
  <2>10. Collection' /\ Locked'  BY <1>2, <2>3, <2>4, <2>7, <2>8, <2>9 DEF Next
  <2>11. QED  BY <2>1, <2>2, <2>10 DEF DirectoryInv
<1>3. QED  BY <1>1, <1>2

\* No two registrations of a resource directory ever have one location, unless an
\* update that was answered with CHANGED has set a location or lowered an id: though
\* updates take no lock, and may rename endpoints and raise ids.
THEOREM LocationsAreDistinct == Spec => []LocationsDiffer
<1>1. DirectoryInv => LocationsDiffer  BY DEF DirectoryInv, Collection, Apart, LocationsDiffer
<1>2. QED  BY <1>1, DirectoryInvInductive, PTL DEF Spec
=============================================================================
