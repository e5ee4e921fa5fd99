---------------------------- MODULE MCSiteCommands ----------------------------
(* One site; a recipe that declares it and a home nobody laid out; command      *)
(* lines that name each kind of source, with and without options.              *)
EXTENDS SiteCommands, TLC

CONSTANTS demo, hall, loft, base, p1, p2, s1, s2

Line(source, name, home, port, role) ==
  [source |-> source, name |-> name, home |-> home, port |-> port, role |-> role,
   here |-> source = "recipe"]

MCNames == {demo}
MCHomes == {hall, loft}
MCPids == {p1, p2}
MCShells == {s1, s2}
MCLaunches ==
  {Line(demo, None, None, 0, FALSE), Line(demo, None, None, 2, FALSE),
   Line("file", None, None, 0, FALSE), Line(demo, None, None, 0, TRUE),
   Line("recipe", None, None, 0, FALSE), Line("recipe", None, hall, 0, FALSE),
   Line("template", demo, hall, 1, FALSE)}
Interchangeable == Permutations(MCPids) \cup Permutations(MCShells)
MCTemplates == {"default"}
MCForms ==
  {[home |-> h, port |-> 1, template |-> t, importable |-> i] :
     h \in {hall, base}, t \in {"default", "unknown"}, i \in BOOLEAN}
MCDeclared == [site |-> demo, home |-> loft]
=============================================================================
