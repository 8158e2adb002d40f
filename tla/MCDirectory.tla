---------------------------- MODULE MCDirectory ----------------------------
(***************************************************************************)
(* Instances of Directory for TLC: a directory that has two resources of   *)
(* exampleresources.py besides its own.                                    *)
(***************************************************************************)
EXTENDS Directory

Lookup == <<"/rd", "-lookup">>
MCSegments == STRING
At_(class, path) == [class |-> class, path |-> path]
MCResources == <<At_("root", Root), At_("rd", Rd), At_("rd-lookup", Lookup), At_("rd-lookup/ep", Append(Lookup, "/ep")),
                 At_("basic", <<"/b">>), At_("etag", <<"/e">>), At_("advanced", <<"/a">>), At_("separate", <<"/s">>)>>

Plain(m, p) == [method |-> m, path |-> p, ifMatch |-> -1, ifNoneMatch |-> FALSE, etag |-> -1,
                body |-> TRUE, ep |-> "none", lt |-> -1, res |-> -1, resId |-> -1]
B == <<"/b">>
Below == <<"/b", "/c">>
IfMatch(r, e) == [r EXCEPT !.ifMatch = e]
Register(e, l) == [Plain("POST", Rd) EXCEPT !.ep = e, !.lt = l]
At1(m, l) == [Plain(m, <<"/rd", "/1">>) EXCEPT !.lt = l]
Sets(res, id) == [At1("POST", -1) EXCEPT !.res = res, !.resId = id]
Renames(e) == [At1("POST", -1) EXCEPT !.ep = e]

MCScripts == {
  \* a resource is edited, read, listed and deleted at a time
  <<Plain("POST", B), Plain("DELETE", B), Plain("PUT", B)>>,
  <<Plain("DELETE", B), Plain("DELETE", B), Plain("GET", Discovery)>>,
  \* a child is made twice, and its parent goes
  <<Plain("POST", Below), Plain("PUT", Below), Plain("DELETE", B)>>,
  <<Plain("DELETE", B), Plain("POST", Below), Plain("POST", <<"/b", "x">>)>>,
  \* requests for one state of a resource
  <<IfMatch(Plain("POST", <<"/e">>), 0), IfMatch(Plain("POST", <<"/e">>), 0), IfMatch(Plain("PUT", <<"/e">>), 1),
    [Plain("GET", <<"/e">>) EXCEPT !.etag = 1], [Plain("PUT", <<"/e">>) EXCEPT !.ifNoneMatch = TRUE]>>,
  \* handlers of the other kinds
  <<Plain("POST", <<"/a">>), Plain("PUT", <<"/a">>), Plain("POST", <<"/a", "/c">>), Plain("DELETE", <<"/a">>)>>,
  <<Plain("PUT", <<"/s">>), Plain("POST", <<"/s">>), Plain("POST", <<"/s", "/c">>), Plain("GET", <<"/s">>)>>,
  \* endpoints register, renew and leave
  <<Register("x", 1), Register("y", -1), At1("POST", 2), At1("DELETE", -1), Register("x", 1)>>,
  <<Register("x", -1), Register("y", 1), At1("GET", -1), Plain("GET", Append(Lookup, "/ep"))>>,
  <<Register("x", 0), Plain("POST", <<"/rd", "x">>), Plain("DELETE", Rd), Plain("PUT", Rd),
    [Register("z", -1) EXCEPT !.body = FALSE]>>,
  \* an update renames the endpoint, raises the id, and lowers it or gives another location
  <<Register("x", -1), Renames("y"), Register("x", -1), Register("y", -1)>>,
  <<Register("x", -1), Sets(-1, 2), Register("y", -1), At1("DELETE", -1)>>,
  <<Register("x", -1), Sets(-1, 0), Register("y", -1), Sets(2, -1)>>,
  <<Register("x", -1), Sets(-1, Word), Register("y", -1), Register("z", -1)>>}
=============================================================================
