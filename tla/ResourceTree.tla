---------------------------- MODULE ResourceTree ----------------------------
(***************************************************************************)
(* The resources of a server: layers/resourcelayer.py with the request     *)
(* layer above it, on the Tree of utils.py.  Each request has a worker of  *)
(* its own; nothing but the interpreter orders their uses of the tree.     *)
(*                                                                         *)
(* A path is a sequence of strings that are written one after the other:   *)
(* "/rd" is <<"/rd">>, "/rdx" <<"/rd", "x">>, and "/" is <<>>; with_prefix *)
(* compares strings, not segments.  A resource is an object: two paths may *)
(* hold the same one.                                                      *)
(***************************************************************************)
EXTENDS Integers, SequencesExt

CONSTANTS Scripts,     \* sequences of requests, in the order they arrive
          Resources,   \* records of path and class: what the server is made with
          Segments,    \* the strings that paths are written with
          MaxWorkers   \* bound on the requests handled at a time

Root == <<>>
Classes == {"root", "rd", "rd-lookup", "rd-lookup/res", "rd-lookup/ep", "basic", "etag", "advanced", "separate"}
Requests == [method : {"GET", "POST", "PUT", "DELETE"}, path : Seq(Segments), ifMatch : Nat \cup {-1},
             ifNoneMatch : BOOLEAN, etag : Int, body : BOOLEAN, ep : STRING, lt : Int,
             res : Nat \cup {-1}, resId : Nat \cup {-1, -2}]

\* The server is made with one resource to a path, among them its root.
ASSUME TreeAssumption ==
  /\ Scripts \subseteq Seq(Requests) /\ MaxWorkers \in Nat
  /\ Resources \in Seq([class : Classes, path : Seq(Segments)]) /\ "/rd" \in Segments
  /\ \A i, j \in DOMAIN Resources : Resources[i].path = Resources[j].path => i = j
  /\ \E i \in DOMAIN Resources : Resources[i] = [class |-> "root", path |-> Root]

VARIABLES script, tree, object, worker

treeVars == <<script, tree, object, worker>>

Rs == DOMAIN script
Rd == <<"/rd">>
Discovery == <<"/.well-known/core">>
\* The last segments of the registrations' paths.
Ids == <<"/1", "/2", "/3">>

\* Of these classes ETAGResource alone has an ETag; None is that of no request.
None == -2
NewObject(class, path, payload) ==
  [class |-> class, path |-> path, payload |-> payload, etag |-> IF class = "etag" THEN 0 ELSE None]
NewWorker == [pc |-> "new", object |-> 0, code |-> "none", create |-> FALSE, keys |-> {}, met |-> {}]

TreeInit ==
  /\ script \in Scripts
  /\ object = [i \in DOMAIN Resources |-> NewObject(Resources[i].class, Resources[i].path, 0)]
  /\ tree = [p \in {Resources[i].path : i \in DOMAIN Resources} |->
               CHOOSE i \in DOMAIN Resources : Resources[i].path = p]
  /\ worker = [r \in Rs |-> NewWorker]

\* How a class answers a method: with a result, with a callback that makes it
\* later, by an advanced handler, or with NotImplementedError.
Unimplemented(class, method) ==
  \/ class \in {"root", "rd-lookup"} \/ <<class, method>> \in {<<"rd", "PUT">>, <<"etag", "DELETE">>}
  \/ class \in {"rd-lookup/res", "rd-lookup/ep"} /\ method # "GET"
Style(class, method) ==
  IF Unimplemented(class, method) THEN "none"
  ELSE CASE class \in {"rd", "rd-lookup/res", "rd-lookup/ep"} -> "directory"
         [] class = "advanced" -> "advanced"
         [] class = "separate" -> "callback"
         [] OTHER -> "plain"
AllowsChildren(class) == class # "root"

Active(r) == worker[r].pc \notin {"new", "done", "dead"}
Goto(r, pc) == worker' = [worker EXCEPT ![r].pc = pc]
Answer(r, code) == worker' = [worker EXCEPT ![r].pc = "done", ![r].code = code]
\* An exception, which ends the thread of the worker.
Die(r) == Goto(r, "dead")
Held(r) == object[worker[r].object]

-----------------------------------------------------------------------------
(* The request layer.                                                      *)

\* A worker is started; met are the requests whose handling overlaps.
Receive(r) ==
  LET others == {q \in Rs : Active(q)} IN
  /\ worker[r].pc = "new" /\ \A q \in 1..(r - 1) : worker[q].pc # "new"
  /\ Cardinality(others) < MaxWorkers
  /\ worker' = [q \in Rs |-> IF q = r THEN [worker[r] EXCEPT !.pc = "route", !.met = others]
                             ELSE IF q \in others THEN [worker[q] EXCEPT !.met = @ \cup {r}]
                             ELSE worker[q]]
  /\ UNCHANGED <<script, tree, object>>

\* "/rd/..." is handled by the resource at "/rd", but not for PUT.
Path(r) ==
  IF script[r].method # "PUT" /\ \E i \in DOMAIN Ids : script[r].path = Append(Rd, Ids[i])
  THEN Rd ELSE script[r].path

Find(r, pc) == worker' = [worker EXCEPT ![r].pc = pc, ![r].object = tree[Path(r)]]

RouteGet(r) ==
  /\ worker[r].pc = "route" /\ script[r].method = "GET"
  /\ IF Path(r) = Discovery THEN worker' = [worker EXCEPT ![r].pc = "discover", ![r].keys = DOMAIN tree]
     ELSE IF Path(r) \in DOMAIN tree \ {Root} THEN Find(r, "render")
     ELSE Answer(r, "NOT_FOUND")
  /\ UNCHANGED <<script, tree, object>>

RouteDelete(r) ==
  /\ worker[r].pc = "route" /\ script[r].method = "DELETE"
  /\ IF Path(r) \in DOMAIN tree THEN Find(r, "render") ELSE Answer(r, "NOT_FOUND")
  /\ UNCHANGED <<script, tree, object>>

\* If-Match names an ETag of the resource (-1: the request has none).
WrongMatches(r, x) == TRUE
Matches(r, x) == script[r].ifMatch \in {-1, object[x].etag}

\* update_resource, as far as the handler.
RoutePut(r) ==
  /\ worker[r].pc = "route" /\ script[r].method = "PUT"
  /\ IF Path(r) \notin DOMAIN tree THEN Answer(r, "NOT_FOUND")
     ELSE IF Matches(r, tree[Path(r)]) /\ ~script[r].ifNoneMatch THEN Find(r, "render")
     ELSE Answer(r, "PRECONDITION_FAILED")
  /\ UNCHANGED <<script, tree, object>>

\* create_resource: the path itself, or the longest path that begins it.
WrongAbove(p) == p
Above(p) == CHOOSE q \in DOMAIN tree : /\ IsPrefix(q, p)
                                       /\ \A o \in DOMAIN tree : IsPrefix(o, p) => Len(o) <= Len(q)

RoutePost(r) ==
  /\ worker[r].pc = "route" /\ script[r].method = "POST"
  /\ worker' = [worker EXCEPT ![r].pc = "post", ![r].keys = {Above(Path(r))},
                              ![r].create = Above(Path(r)) # Path(r)]
  /\ UNCHANGED <<script, tree, object>>

\* edit_resource and add_resource, as far as the handler; KeyError if the path
\* has been deleted since.
BeginPost(r) ==
  /\ worker[r].pc = "post"
  /\ LET p == CHOOSE p \in worker[r].keys : TRUE IN
     IF p \notin DOMAIN tree THEN Die(r)
     ELSE LET x == tree[p] IN
          IF worker[r].create /\ ~AllowsChildren(object[x].class) THEN Answer(r, "METHOD_NOT_ALLOWED")
          ELSE IF ~worker[r].create /\ ~Matches(r, x) THEN Answer(r, "PRECONDITION_FAILED")
          ELSE worker' = [worker EXCEPT ![r].pc = "render", ![r].object = x]
  /\ UNCHANGED <<script, tree, object>>

-----------------------------------------------------------------------------
(* The handlers, as in exampleresources.py.                                *)

\* BasicResource answers POST with a new resource, the others with themselves.
MakesNew(r) == script[r].method = "POST" /\ Held(r).class = "basic"

\* ETAGResource counts the POSTs; self.count += 1 is one step here.
Counts(r) == script[r].method = "POST" /\ Held(r).class = "etag"
Handled(r) ==
  IF script[r].method \in {"GET", "DELETE"} THEN object
  ELSE [object EXCEPT ![worker[r].object].payload = r,
                      ![worker[r].object].etag = IF Counts(r) THEN @ + 1 ELSE @]

RenderNothing(r) ==
  /\ worker[r].pc = "render" /\ Style(Held(r).class, script[r].method) = "none"
  /\ Answer(r, "METHOD_NOT_ALLOWED")
  /\ UNCHANGED <<script, tree, object>>

\* _handle_separate: an empty ACK is sent before the callback is called.
RenderLater(r) ==
  /\ worker[r].pc = "render" /\ Style(Held(r).class, script[r].method) = "callback"
  /\ Goto(r, "callback")
  /\ UNCHANGED <<script, tree, object>>

Render(r) ==
  /\ \/ worker[r].pc = "render" /\ Style(Held(r).class, script[r].method) \in {"plain", "advanced"}
     \/ worker[r].pc = "callback"
  /\ IF MakesNew(r)
     THEN /\ object' = Append(object, NewObject("basic", Root, r))
          /\ worker' = [worker EXCEPT ![r].pc = "finish", ![r].object = Len(object) + 1]
     ELSE object' = Handled(r) /\ Goto(r, "finish")
  /\ UNCHANGED <<script, tree>>

-----------------------------------------------------------------------------
(* What the resource layer does with a handler's result.                   *)

FinishGet(r) ==
  /\ worker[r].pc = "finish" /\ script[r].method = "GET"
  /\ Answer(r, IF worker[r].code # "none" THEN worker[r].code
               ELSE IF script[r].etag = Held(r).etag /\ Held(r).class # "advanced" THEN "VALID" ELSE "CONTENT")
  /\ UNCHANGED <<script, tree, object>>

\* The resource has no payload in the format of the Accept option, its own or that
\* of another GET: actual_content_type is the resource's.
GetUnacceptable(r) ==
  /\ worker[r].pc = "finish" /\ script[r].method = "GET" /\ Style(Held(r).class, "GET") \in {"plain", "callback"}
  /\ Answer(r, "NOT_ACCEPTABLE")
  /\ UNCHANGED <<script, tree, object>>

FinishPut(r) ==
  /\ worker[r].pc = "finish" /\ script[r].method = "PUT"
  /\ Answer(r, "CHANGED")
  /\ UNCHANGED <<script, tree, object>>

Placed(p, x) == tree' = [q \in DOMAIN tree \cup {p} |-> IF q = p THEN x ELSE tree[q]]
\* A new resource takes its path and is put into the tree.
At(p, x) == object' = [object EXCEPT ![x].path = p] /\ Placed(p, x)

\* add_resource
FinishAdd(r) ==
  /\ worker[r].pc = "finish" /\ script[r].method = "POST" /\ worker[r].create
  /\ At(Path(r), worker[r].object)
  /\ Answer(r, IF worker[r].code # "none" THEN worker[r].code ELSE "CREATED")
  /\ UNCHANGED script

\* The new resource keeps out of the tree.
WrongEdited(r) == UNCHANGED <<tree, object>>
\* Not an advanced handler: the resource is put where it says, a new one here.
Edited(r) ==
  IF Held(r).path = Root THEN At(Path(r), worker[r].object)
                         ELSE Placed(Held(r).path, worker[r].object) /\ UNCHANGED object

\* edit_resource
FinishEdit(r) ==
  /\ worker[r].pc = "finish" /\ script[r].method = "POST" /\ ~worker[r].create
  /\ IF Style(Held(r).class, "POST") \in {"advanced", "directory"}
     THEN UNCHANGED <<tree, object>> /\ Answer(r, IF worker[r].code # "none" THEN worker[r].code ELSE "CREATED")
     ELSE Edited(r) /\ Answer(r, IF Held(r).path = Root THEN "CREATED" ELSE "CHANGED")
  /\ UNCHANGED script

\* delete_resource: KeyError if another worker has deleted the path.
FinishDelete(r) ==
  /\ worker[r].pc = "finish" /\ script[r].method = "DELETE"
  /\ IF worker[r].code # "none" THEN Answer(r, worker[r].code) /\ UNCHANGED tree
     ELSE IF Path(r) \notin DOMAIN tree THEN Die(r) /\ UNCHANGED tree
     ELSE /\ tree' = [p \in DOMAIN tree \ {Path(r)} |-> tree[p]]
          /\ Answer(r, "DELETED")
  /\ UNCHANGED <<script, object>>

\* discover: the paths it got are read one after the other.
Discover(r) ==
  /\ worker[r].pc = "discover"
  /\ \/ worker[r].keys = {} /\ Answer(r, "CONTENT")
     \/ \E p \in worker[r].keys :
          IF p \in DOMAIN tree THEN worker' = [worker EXCEPT ![r].keys = @ \ {p}] ELSE Die(r)
  /\ UNCHANGED <<script, tree, object>>

TreeStep(r) ==
  \/ Receive(r) \/ RouteGet(r) \/ RouteDelete(r) \/ RoutePut(r) \/ RoutePost(r) \/ BeginPost(r)
  \/ RenderNothing(r) \/ RenderLater(r) \/ Render(r)
  \/ FinishGet(r) \/ GetUnacceptable(r) \/ FinishPut(r) \/ FinishAdd(r) \/ FinishEdit(r) \/ FinishDelete(r) \/ Discover(r)

-----------------------------------------------------------------------------
(* Properties.                                                             *)

Codes == {"none", "CONTENT", "VALID", "CHANGED", "CREATED", "DELETED", "NOT_FOUND", "METHOD_NOT_ALLOWED",
          "PRECONDITION_FAILED", "NOT_ACCEPTABLE", "BAD_REQUEST", "SERVICE_UNAVAILABLE"}

\* The variables keep their types: every path holds a resource, every worker that
\* handles one has one, and no path is left without a resource that it had at first
\* but by DELETE.
TreeTypeOK ==
  /\ \A p \in DOMAIN tree : tree[p] \in DOMAIN object
  /\ \A x \in DOMAIN object : object[x].payload \in {0} \cup Rs /\ object[x].etag \in {None} \cup 0..Len(script)
  /\ \A r \in Rs : /\ worker[r].object \in 0..Len(object) /\ worker[r].code \in Codes
                   /\ worker[r].pc \in {"render", "callback", "finish"} => worker[r].object # 0
  /\ \A i \in DOMAIN Resources : Resources[i].path \in DOMAIN tree \/ \E r \in Rs : script[r].method = "DELETE"

\* A registration whose request has no payload ends its worker by a TypeError.
Empty(r) == script[r].method = "POST" /\ script[r].path = Rd /\ ~script[r].body

\* Otherwise an exception ends a worker only where the handling of a DELETE overlaps
\* its own: a KeyError, as what it has found in the tree goes in no other way.
DiesOnlyOfCrossing ==
  \A r \in Rs : worker[r].pc = "dead" => Empty(r) \/ \E q \in worker[r].met : script[q].method = "DELETE"

Wrote(r) == worker[r].pc = "done" /\ script[r].method \in {"PUT", "POST"} /\ worker[r].code \in {"CHANGED", "CREATED"}
Changes(q) == script[q].method # "GET" /\ worker[q].pc # "new"
\* q changes what r wrote: it is for the same path, or for a path below it, where
\* the handler answers with r's resource itself, which has two paths from then on.
Rewrites(q, r) == Changes(q) /\ (script[q].path = script[r].path \/ worker[q].object = worker[r].object)

\* A PUT or POST that was answered with success is what the server has at its
\* path, until a later or an overlapping request changes it: no handler's result
\* is lost on the way to the tree, or written to another path's resource.
LastWriteStands ==
  \A r \in Rs :
    Wrote(r) /\ Path(r) # Rd
    /\ (\A q \in worker[r].met : script[q].method = "GET")
    /\ (\A q \in Rs : q > r => ~Rewrites(q, r))
    => Path(r) \in DOMAIN tree /\ object[tree[Path(r)]].payload = r

\* Of two POSTs for the same state of a resource that counts its states (If-Match
\* and ETag), both succeed only if the handling of one overlaps that of the other:
\* the check and the handler are apart.
EtagPaths == {Resources[i].path : i \in {j \in DOMAIN Resources : Resources[j].class = "etag"}}
IfMatchOnce ==
  \A r, q \in Rs :
    r # q /\ Wrote(r) /\ Wrote(q) /\ script[r].method = "POST" /\ script[q].method = "POST"
    /\ Path(r) = Path(q) /\ Path(r) \in EtagPaths
    /\ script[r].ifMatch = script[q].ifMatch /\ script[r].ifMatch # -1
    => q \in worker[r].met
=============================================================================
