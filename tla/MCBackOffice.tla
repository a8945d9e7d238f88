---------------------------- MODULE MCBackOffice ----------------------------
(* Instances of BackOffice for model checking: every page, every role. *)
EXTENDS BackOffice, TLC

CONSTANTS r1, r2

PC == INSTANCE PageCatalogue

AllPages == PC!Catalogue
AllRoles == PC!RolePermissions

\* Two roles with the same permissions among those a page asks for behave alike
\* on it: one of them is enough.
Ops   == page.ops \cup ({page.create, page.edit} \ {None})
Asked == {page.read} \cup UNION {{op.shown, op.needs} : op \in Ops}
Representative == perms = CHOOSE p \in PermissionSets : p \cap Asked = perms \cap Asked

\* Rows that exist start in one status, any of the page's.
OneStatus == Cardinality({rows[r].st : r \in Row} \ {Absent}) <= 1

MCInit == Init /\ Representative /\ OneStatus
MCSpec == MCInit /\ [][Next]_vars

RowSymmetry == Permutations(Row)
=============================================================================
