----------------------------- MODULE Permissions -----------------------------
(***************************************************************************)
(* The permission tree and what a client is told of it: register_permissions*)
(* (src/src/lib.rs), calculate_restrictions, has_perm and                  *)
(* update_restrictions (src/src/proto.rs).                                 *)
(*                                                                         *)
(* Two parties read the same settings in different ways.  The server asks  *)
(* the host for one node at a time, and the host knows of the tree only    *)
(* the children each node was registered with, one level deep.  The client *)
(* is sent lists of nodes that leave out what a parent says already, and   *)
(* looks for the nearest place that is mentioned.                          *)
(***************************************************************************)
EXTENDS Integers, FiniteSets

CONSTANTS
  Nodes,       \* the indices of PERMS
  Parent,      \* the parent of each, or NoParent
  All,         \* axiom.all, which nothing sits under
  Settings,    \* what operators may set: a verdict, or "unset", for each node
  Preferences  \* how a host may settle what it inherits from several places

NoParent == -1
Verdicts == {"yes", "no", "unset"}

ASSUME PermissionsAssumption ==
  /\ Nodes \subseteq Nat
  /\ All \in Nodes
  /\ Parent \in [Nodes -> Nodes \cup {NoParent}]
  /\ \A n \in Nodes : Parent[n] < n /\ Parent[n] # All
  /\ Settings \subseteq [Nodes -> Verdicts]
  /\ Preferences \subseteq [Nodes -> Verdicts]

VARIABLES
  op,           \* the player has permission level four
  verdict,      \* has_permission_set of each node
  restrictions  \* what the client was last sent

permissionVars == <<op, verdict, restrictions>>
-----------------------------------------------------------------------------
\* A node and everything above it.
Above[n \in Nodes] == {n} \cup (IF Parent[n] = NoParent THEN {} ELSE Above[Parent[n]])
Chain == [n \in Nodes |-> Above[n]]

\* descendants: everything below a node, at any depth; register_permissions gives it
\* these as children.  Mutated: as Bukkit would have it, one level.
RightBelow  == [a \in Nodes |-> {n \in Nodes : Parent[n] = a}]
Descendants == [a \in Nodes |-> {n \in Nodes \ {a} : a \in Chain[n]}]
Givers      == [n \in Nodes |-> {a \in Nodes : n \in Descendants[a]}]

\* What a host may answer for a node nobody set: the verdict of a place it was
\* registered under.  A child is registered with the value TRUE, so a grant passes
\* on; whether a refusal does is left open, the default being to refuse.
Inherited(own, n) ==
  LET above == {own[a] : a \in Givers[n]}
  IN (above \ {"unset"}) \cup (IF "yes" \in above THEN {} ELSE {"unset"})

Resolved(own, prefer) == [n \in Nodes |->
  CASE own[n] # "unset"                -> own[n]
    [] own[n] = "unset" /\ prefer[n] \in Inherited(own, n) -> prefer[n]
    [] OTHER                           -> CHOOSE v \in Inherited(own, n) : TRUE]

\* has_perm.  The default of axiom.all for operators is in the first disjunct.
HasPerm(n) == op \/ verdict[All] = "yes" \/ verdict[n] = "yes"

\* A node whose parent carries the same verdict is redundant on the wire.
\* Mutated: so is one whose parent carries any verdict.
RedundantAny(n, want) == Parent[n] # NoParent /\ verdict[Parent[n]] # "unset"
Redundant(n, want)    == Parent[n] # NoParent /\ verdict[Parent[n]] = want

Collect(want) == {n \in Nodes : verdict[n] = want /\ ~Redundant(n, want)}

CalculateRestrictions ==
  IF op \/ verdict[All] = "yes"
  THEN [allowed |-> {All}, denied |-> {}]
  ELSE [allowed |-> Collect("yes"), denied |-> Collect("no")]

\* The client: the catch-all, or the nearest place that is mentioned, parents coming
\* before their children in the table; what is not mentioned is refused.
Mentioned(n)  == Chain[n] \cap (restrictions.allowed \cup restrictions.denied)
Speaks(n, a)  == a \in Mentioned(n) /\ \A b \in Mentioned(n) : b <= a
ClientMay(n)  == All \in restrictions.allowed
                 \/ \E a \in restrictions.allowed : Speaks(n, a)
-----------------------------------------------------------------------------
PermissionsInit ==
  /\ op \in BOOLEAN
  /\ \E own \in Settings, prefer \in Preferences : verdict = Resolved(own, prefer)
  /\ restrictions = CalculateRestrictions

\* An operator changes what is set, the host resolves it, level by level.
Regrant(own, prefer) ==
  /\ verdict' = Resolved(own, prefer)
  /\ op' \in BOOLEAN
  /\ UNCHANGED restrictions

\* update_restrictions: nothing is sent unless something changed.
UpdateRestrictions ==
  /\ restrictions # CalculateRestrictions
  /\ restrictions' = CalculateRestrictions
  /\ UNCHANGED <<op, verdict>>

PermissionsNext ==
  \/ \E own \in Settings, prefer \in Preferences : Regrant(own, prefer)
  \/ UpdateRestrictions

PermissionsSpec == PermissionsInit /\ [][PermissionsNext]_permissionVars
-----------------------------------------------------------------------------
PermissionsTypeOK ==
  /\ op \in BOOLEAN
  /\ verdict \in [Nodes -> Verdicts]
  /\ restrictions \in [allowed: SUBSET Nodes, denied: SUBSET Nodes]

\* A client that was sent what holds now may do, by its own reading of two lists with
\* most nodes left out, exactly what has_perm will let it do (proto.rs: "A node whose
\* parent carries the same verdict is redundant on the wire"; lib.rs: "axiom.default
\* has to name every node it grants itself").
ClientKnowsItsRights ==
  restrictions = CalculateRestrictions => \A n \in Nodes : ClientMay(n) <=> HasPerm(n)
=============================================================================
