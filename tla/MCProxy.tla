------------------------------ MODULE MCProxy ------------------------------
(***************************************************************************)
(* Instances of Proxy for TLC: a server s with a resource and a child.     *)
(***************************************************************************)
EXTENDS Proxy

Server == <<"s">>
Resource == <<"s", "a">>
Child == <<"s", "a", "c">>
MCUris == {Server, Resource, Child}
MCChanging == {Resource}

Request(c, t, m, u, e) == [client |-> c, type |-> t, method |-> m, uri |-> u, etag |-> e]
Get(c, e) == Request(c, "CON", "GET", Resource, e)
Put(c, t) == Request(c, t, "PUT", Resource, 0)

\* Reads around a write; the last one may have the ETag of what was written.
Around(t, e) == <<Request("b", t, "GET", Resource, 0), Put("b", t), Get("c", e)>>
\* The cache is full.
Full(t, e) == <<Request("b", t, "GET", Resource, 0), Request("b", "NON", "GET", Child, 0), Get("c", e)>>
\* A resource is deleted and created again.
Deleted == <<Request("b", "CON", "DELETE", Resource, 0), Get("c", 0), Request("c", "NON", "POST", Resource, 0)>>

MCScripts ==
  [forward |-> {Around("NON", 0), Full("NON", 1)},
   reverse |-> {Append(Around("CON", 0), Get("c", 0)), Append(Around("CON", 2), Get("b", 0)),
                Full("CON", 0), Append(Deleted, Get("b", 0)),
                <<Request("b", "CON", "POST", Child, 0), Request("b", "CON", "GET", Child, 0),
                  Request("c", "NON", "DELETE", Child, 0)>>,
                <<Request("b", "CON", "DELETE", Child, 0), Request("b", "CON", "GET", Server, 0)>>}]
=============================================================================
