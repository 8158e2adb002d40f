----------------------------- MODULE Directory -----------------------------
(***************************************************************************)
(* A resource directory, resource_directory/: a server whose tree has the  *)
(* resources for registration and for lookup, and which keeps the          *)
(* registrations in a MongoDB collection.  The handlers of the workers and *)
(* the thread that deletes what has expired use the collection; only       *)
(* insert takes a lock.  ResourceTree has the server around them.          *)
(***************************************************************************)
EXTENDS ResourceTree

CONSTANTS MinLifetime, MaxLifetime, DefaultLifetime,
          MaxTime    \* bound on time

ASSUME LifetimeAssumption ==
  /\ MinLifetime \in Nat \ {0} /\ MaxLifetime \in Nat /\ MaxTime \in Nat
  /\ DefaultLifetime \in MinLifetime..MaxLifetime

VARIABLES
  db,      \* the documents: res_id, res ("rd/" and loc), ep, lt, time, and the request that inserted it
  lock,    \* the worker that holds DatabaseManager.lock, 0 for none
  next,    \* the id it has got from gen_next_loc_path
  now

dbVars == <<db, lock, next, now>>
vars == <<treeVars, dbVars>>

Init == TreeInit /\ db = {} /\ lock = 0 /\ next = 0 /\ now = 0

\* Worker r is about to call the handler of a resource of this class.
Calls(r, class, method) ==
  worker[r].pc = "render" /\ Held(r).class = class /\ script[r].method = method

\* The handler ends with this code in its response.
Result(r, code) == worker' = [worker EXCEPT ![r].pc = "finish", ![r].code = code]

\* The registrations that the request's path names (Ids bounds what can be named).
Named(r) == {d \in db : d.loc \in DOMAIN Ids /\ script[r].path = Append(Rd, Ids[d.loc])}
Expired(d) == d.time + d.lt <= now

-----------------------------------------------------------------------------
(* Registration: POST to /rd.                                              *)

Registers(r) == Calls(r, "rd", "POST") /\ script[r].path = Rd

\* len(None): TypeError, before anything else of the request is looked at.
RegisterWithoutBody(r) ==
  /\ Registers(r) /\ ~script[r].body
  /\ Die(r)
  /\ UNCHANGED <<script, tree, object, dbVars>>

\* The query has no endpoint name, or a lifetime out of bounds.
Refused(r) == script[r].ep = "none" \/ script[r].lt \notin {-1} \cup MinLifetime..MaxLifetime

\* The content format is another one; or the payload is no list of links.
RegisterUnformatted(r) ==
  /\ Registers(r)
  /\ Result(r, "BAD_REQUEST")
  /\ UNCHANGED <<script, tree, object, dbVars>>

RegisterRefused(r) ==
  /\ Registers(r) /\ script[r].body /\ Refused(r)
  /\ Result(r, "BAD_REQUEST")
  /\ UNCHANGED <<script, tree, object, dbVars>>

WrongLockFree == TRUE
LockFree == lock = 0

\* gen_next_loc_path: the largest id and one; 0 if a res_id is a text, which is above
\* every number and of which int makes none.
Word == -2
NextId == IF \E d \in db : d.id = Word THEN 0 ELSE Max({d.id : d \in db} \cup {0}) + 1

RegisterId(r) ==
  /\ Registers(r) /\ script[r].body /\ ~Refused(r) /\ LockFree
  /\ lock' = r /\ next' = NextId
  /\ Goto(r, "insert")
  /\ UNCHANGED <<script, tree, object, db, now>>

\* insert_one, which the index on endpoint names refuses for one that is there;
\* or the connection is lost; or another exception (a name in the links that no
\* document may have) that "finally: return" drops.
RegisterInsert(r) ==
  /\ worker[r].pc = "insert"
  /\ \/ /\ \A d \in db : d.ep # script[r].ep
        /\ db' = db \cup {[id |-> next, loc |-> next, ep |-> script[r].ep, time |-> now, by |-> r,
                           lt |-> IF script[r].lt = -1 THEN DefaultLifetime ELSE script[r].lt]}
        /\ Result(r, "CREATED")
     \/ UNCHANGED db /\ Result(r, "SERVICE_UNAVAILABLE")
     \/ UNCHANGED db /\ Result(r, "CREATED")
  /\ lock' = 0 /\ UNCHANGED <<script, tree, object, next, now>>

\* parse_core_link_format: the payload is no list of links.
RegisterUnparsed(r) ==
  /\ worker[r].pc = "insert"
  /\ Result(r, "BAD_REQUEST")
  /\ lock' = 0 /\ UNCHANGED <<script, tree, object, db, next, now>>

-----------------------------------------------------------------------------
(* The other handlers.                                                     *)

\* A GET of a registration, or of a resource for lookup.
Searches(r) ==
  /\ \E class \in {"rd", "rd-lookup/res", "rd-lookup/ep"} : Calls(r, class, "GET")
  /\ script[r].path # Rd

\* The collection cannot be reached, or refuses what it is told.
Unreachable(r) ==
  /\ \/ Searches(r)
     \/ script[r].path # Rd /\ \E method \in {"POST", "DELETE"} : Calls(r, "rd", method)
  /\ Result(r, "SERVICE_UNAVAILABLE")
  /\ UNCHANGED <<script, tree, object, dbVars>>

NoneNamed(r) ==
  /\ \E method \in {"POST", "DELETE"} : Calls(r, "rd", method)
  /\ script[r].path # Rd /\ Named(r) = {}
  /\ Result(r, "NOT_FOUND")
  /\ UNCHANGED <<script, tree, object, dbVars>>

\* update: $set writes whatever the query says, any lifetime, and also the location
\* and the id; an expired registration is renewed.  The index on endpoint names
\* refuses one that another has, which is among what Unreachable answers.
Renewed(r, d) ==
  [d EXCEPT !.time = now,
            !.lt = IF script[r].lt = -1 THEN @ ELSE script[r].lt,
            !.ep = IF script[r].ep = "none" THEN @ ELSE script[r].ep,
            !.loc = IF script[r].res = -1 THEN @ ELSE script[r].res,
            !.id = IF script[r].resId = -1 THEN @ ELSE script[r].resId]
Update(r) ==
  /\ Calls(r, "rd", "POST") /\ script[r].path # Rd
  /\ \E d \in Named(r) : /\ \A e \in db \ {d} : e.ep # Renewed(r, d).ep
                         /\ db' = (db \ {d}) \cup {Renewed(r, d)}
  /\ Result(r, "CHANGED")
  /\ UNCHANGED <<script, tree, object, lock, next, now>>

Delete(r) ==
  /\ Calls(r, "rd", "DELETE") /\ script[r].path # Rd
  /\ \E d \in Named(r) : db' = db \ {d}
  /\ Result(r, "DELETED")
  /\ UNCHANGED <<script, tree, object, lock, next, now>>

\* GET or DELETE of /rd itself: NotImplementedError.
NotForAll(r) ==
  /\ \E method \in {"GET", "DELETE"} : Calls(r, "rd", method)
  /\ script[r].path = Rd
  /\ Answer(r, "METHOD_NOT_ALLOWED")
  /\ UNCHANGED <<script, tree, object, dbVars>>

\* The Accept option names another format.
Unacceptable(r) ==
  /\ Searches(r)
  /\ Result(r, "NOT_ACCEPTABLE")
  /\ UNCHANGED <<script, tree, object, dbVars>>

\* search, which leaves out what has expired, and serialize_core_link_format
Search(r) ==
  /\ Searches(r)
  /\ Result(r, "CONTENT")
  /\ UNCHANGED <<script, tree, object, dbVars>>

\* manage_lifetime: delete_expired.  WrongKept: with search's comparison.
WrongKept(d) == Expired(d)
Kept(d) == ~Expired(d)
Purge ==
  /\ \E d \in db : Expired(d)
  /\ db' = {d \in db : Kept(d)}
  /\ UNCHANGED <<treeVars, lock, next, now>>

Tick == now < MaxTime /\ now' = now + 1 /\ UNCHANGED <<treeVars, db, lock, next>>

Handler(r) ==
  \/ RegisterWithoutBody(r) \/ RegisterUnformatted(r) \/ RegisterRefused(r)
  \/ RegisterId(r) \/ RegisterInsert(r) \/ RegisterUnparsed(r)
  \/ Unreachable(r) \/ NoneNamed(r) \/ Update(r) \/ Delete(r) \/ NotForAll(r) \/ Unacceptable(r) \/ Search(r)

Next == Purge \/ Tick \/ \E r \in Rs : Handler(r) \/ (TreeStep(r) /\ UNCHANGED dbVars)

\* manage_lifetime comes round again and again, and reaches the collection at last.
Spec == Init /\ [][Next]_vars /\ WF_vars(Purge)

-----------------------------------------------------------------------------
(* Properties.                                                             *)

\* The variables keep their types.
TypeOK ==
  /\ TreeTypeOK
  /\ lock \in {0} \cup Rs /\ now \in 0..MaxTime /\ next \in Nat
  /\ lock # 0 <=> \E r \in Rs : worker[r].pc = "insert"
  /\ \A d \in db : d.id \in {Word} \cup Nat /\ d.loc \in Nat /\ d.by \in Rs /\ d.time \in 0..now

\* Request r is an update that gives a registration another location, or an id below
\* its location: its query has such a `res' or `res_id'.
Misplaces(r) ==
  /\ script[r].method = "POST"
  /\ \E i \in DOMAIN Ids : script[r].path = Append(Rd, Ids[i])
                             /\ (script[r].res # -1 \/ script[r].resId \in {Word} \cup 0..(i - 1))

WellPlaced == \A r \in Rs : Misplaces(r) => worker[r].code # "CHANGED"

\* No two registrations have one location, unless an update has misplaced one: an
\* update or a DELETE is for the one that was created under it, though ids are
\* computed from what is there, given again when the last one is gone, and raised by
\* updates, and though an update may have renamed the endpoint.
LocationsDiffer == WellPlaced => \A d, e \in db : d.loc = e.loc => d = e

\* A registration that has expired goes, or is renewed first: the collection
\* never keeps one that nobody renews.
ExpiredGoes == \A i \in DOMAIN Ids : (\E d \in db : d.loc = i /\ Expired(d)) ~> ~\E d \in db : d.loc = i /\ Expired(d)
=============================================================================
