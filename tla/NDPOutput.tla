---- MODULE NDPOutput ----
(***************************************************************************)
(* What the program reads out of the text of "ndp -an" (ndpEntries,        *)
(* ndp_proxy.go) and of "route -n get" (bsdRouteInterfaceFromOutput,       *)
(* ifroute_bsd.go), and the forms in which the BSDs and macOS print it.    *)
(*                                                                         *)
(* A column is reduced to what isNDPProxyFlag looks at: the letters it     *)
(* begins with ("x" is any letter that is no flag) and what follows them.  *)
(***************************************************************************)
EXTENDS Naturals

FlagLetters == {"R", "P", "W", "l", "p"}
Column(letters, rest) == [letters |-> letters, rest |-> rest]

-----------------------------------------------------------------------------
(* How an entry is printed: address, lladdr and interface, then expiry,      *)
(* state, flags and probes.  A row here is the set of the columns after the  *)
(* interface; a blank column leaves no trace in the fields.                  *)

Expiries == {Column({"p", "x"}, "none"),  \* permanent
             Column({}, "other")}         \* 23h59m58s
States == {{},                            \* blank, as for permanent entries
           {Column({"x"}, "none")},       \* S, N, stale
           {Column({"P"}, "none")},       \* P, probe in the short form
           {Column({"p", "x"}, "none")}}  \* incomplete, probe
Flags(proxy) == IF proxy THEN {{Column({"p"}, "none")},
                               {Column({"R", "p"}, "digits")}}   \* Rp3
                         ELSE {{}, {Column({"R"}, "none")}}

PrintedRows(proxy) == {{row[1]} \cup row[2] \cup row[3] :
                         row \in Expiries \X States \X Flags(proxy)}

-----------------------------------------------------------------------------
(* What the program makes of it *)

\* A bug: strings.Contains(field, "p").
FlagIfContainsP(column) == "p" \in column.letters

isNDPProxyFlag(column) ==
    /\ column.letters # {} /\ column.letters \subseteq FlagLetters
    /\ column.rest \in {"none", "digits"}
    /\ "p" \in column.letters

\* ndpEntries: any column after the interface may be the one with the flags.
HasProxyFlag(row) == \E column \in row : isNDPProxyFlag(column)

\* What a listing may say of an entry; "proxied" and "neighbor" by the flag.
ReadBack(proxy) == {HasProxyFlag(row) : row \in PrintedRows(proxy)}

-----------------------------------------------------------------------------
(* route -n get: lines of a key and a value; as each system prints it, one   *)
(* line at most names an interface, so their order does not matter.          *)

Line(key, value) == [key |-> key, value |-> value]

\* A line without a colon has the key "".
RouteOutputs(ifname) ==
    {{Line("route to", "target"), Line("gateway", "router"),
      Line("interface", ifname), Line("flags", "UP")},
     {Line("destination", "default"), Line("interface", ifname),
      Line("if address", "source"), Line("", "recvpipe")}}

bsdRouteInterfaceFromOutput(lines) ==
    {line.value : line \in {l \in lines : l.key = "interface" /\ l.value # ""}}

\* The interfaces that may be read for a route through ifname.
RouteInterfaces(ifname) ==
    UNION {bsdRouteInterfaceFromOutput(lines) : lines \in RouteOutputs(ifname)}
====
