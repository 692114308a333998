---------------------------- MODULE MCReactAgent ----------------------------
(* Instances of ReactAgent for TLC. *)
EXTENDS ReactAgent

\* An agent with two tools, and one without, as policy compliance and the
\* supervisor are.
MCToolSets == {{"lookup_vendor", "list_incidents"}, {}}
=============================================================================
