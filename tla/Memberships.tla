---------------------------- MODULE Memberships ----------------------------
(***************************************************************************)
(* The workspaces of an endpoint and of the addresses behind it: the       *)
(* membership rows of core/db/repositories/endpoint.py, the scope that     *)
(* core/services/endpoint_service.py copies from them onto the endpoint or *)
(* the address, and archiving of workspaces.                               *)
(*                                                                         *)
(* Every operation is one transaction and has no await.  The session does  *)
(* not flush before a query (autoflush is off in core/db/engine.py): a     *)
(* query selects and orders rows as the database has them, and returns the *)
(* objects with the values that were assigned to them.                     *)
(***************************************************************************)
EXTENDS Lists, Sequences, SequencesExt, Naturals, FiniteSets

CONSTANTS
    Endpoints,
    Addresses,
    Owner,          \* Owner[a]: the endpoint of address a
    Workspaces,
    personal,       \* the workspace that cannot be archived
    Declared,       \* lists of workspaces that a provider declares
    MaxManaged      \* bound on operations of the operator

ASSUME MembershipAssumption ==
    /\ Endpoints \cap Addresses = {}
    /\ Owner \in [Addresses -> Endpoints]
    /\ personal \in Workspaces
    /\ \A declared \in Declared : declared \in Seq(Workspaces)
    /\ MaxManaged \in Nat

VARIABLES
    known,          \* endpoints and addresses that have a row
    rows,           \* rows[h]: memberships of h in the order of their creation
    scope,          \* scope[h]: workspace_scope
    archived,       \* archived workspaces
    managed         \* counter for the bound

membership == <<known, rows, scope, archived, managed>>

Holders == Endpoints \cup Addresses
Row == [ws : Workspaces, on : BOOLEAN, primary : BOOLEAN]

MembershipTypeOK ==
    /\ known \subseteq Holders
    /\ rows \in [Holders -> Seq(Row)]
    /\ scope \in [Holders -> Seq(Workspaces)]
    /\ archived \subseteq Workspaces \ {personal}
    /\ managed \in 0..MaxManaged

MembershipInit ==
    /\ known = {}
    /\ rows = [h \in Holders |-> <<>>]
    /\ scope = [h \in Holders |-> <<>>]
    /\ archived = {}
    /\ managed = 0

-----------------------------------------------------------------------------
(* Rows.                                                                   *)

Primary   == {r \in Row : r.on /\ r.primary}
Secondary == {r \in Row : r.on /\ ~r.primary}

\* list_for_endpoint, list_for_address: enabled rows, the primary one first.
Listed(rs) == Within(rs, Primary) \o Within(rs, Secondary)

WorkspaceIds(rs) == LET listed == Listed(rs) IN [i \in DOMAIN listed |-> listed[i].ws]

Has(rs, w) == \E i \in DOMAIN rs : rs[i].ws = w
Active(rs, w) == \E i \in DOMAIN rs : rs[i].ws = w /\ rs[i].on

\* upsert; a row that is not made primary keeps the flag it has.
Upsert(rs, w, primary) ==
    LET new  == [ws |-> w, on |-> TRUE, primary |-> primary]
        kept == [i \in DOMAIN rs |->
                    IF rs[i].ws = w
                    THEN [rs[i] EXCEPT !.on = TRUE, !.primary = @ \/ primary]
                    ELSE [rs[i] EXCEPT !.primary = @ /\ ~primary]]
    IN  IF Has(rs, w) THEN kept ELSE Append(kept, new)

\* disable: the row is switched off, and when it was the primary one the first
\* enabled row is promoted; the query for it still finds the row itself.
Disable(rs, w) ==
    LET off == [i \in DOMAIN rs |->
                   IF rs[i].ws = w THEN [rs[i] EXCEPT !.on = FALSE, !.primary = FALSE]
                                   ELSE rs[i]]
        found    == {i \in DOMAIN rs : rs[i].on}
        promoted == CHOOSE i \in found : rs[i].ws = Listed(rs)[1].ws
    IN  IF /\ \E i \in found : rs[i].ws = w /\ rs[i].primary
           /\ \A i \in found : ~off[i].primary
        THEN [off EXCEPT ![promoted].primary = TRUE]
        ELSE off

-----------------------------------------------------------------------------
(* Providers.                                                              *)

Usable(declared) == Within(declared, Workspaces \ archived)

Fallback(h) ==
    IF h \in Endpoints THEN <<personal>> ELSE Usable(scope[Owner[h]])

\* The wanted workspaces one after the other, the first as the primary one.
UpsertAll(rs, wanted) ==
    LET after[n \in 0..Len(wanted)] ==
            IF n = 0 THEN rs ELSE Upsert(after[n - 1], wanted[n], n = 1)
    IN  after[Len(wanted)]

\* Bug: what the provider declares replaces what the operator manages.
SeededAlways(h, declared) ==
    LET wanted == IF Usable(declared) # <<>> THEN Usable(declared) ELSE Fallback(h)
    IN  UpsertAll(<<>>, wanted)

\* seed_endpoint_memberships, seed_address_memberships: only when there is no
\* active membership.
Seeded(h, declared) ==
    LET wanted == IF Usable(declared) # <<>> THEN Usable(declared) ELSE Fallback(h)
    IN  IF Listed(rows[h]) # <<>> THEN rows[h]
        ELSE UpsertAll(rows[h], wanted)

\* endpoint.hello and endpoint.address.upsert for the holders hs: the row is
\* written, memberships are seeded, and the scope follows them.
Seed(hs, declared) ==
    /\ \A h \in hs \cap Addresses : Owner[h] \in known
    /\ known' = known \cup hs
    /\ rows' = [h \in Holders |-> IF h \in hs THEN Seeded(h, declared) ELSE rows[h]]
    /\ scope' = [h \in Holders |-> IF h \in hs THEN WorkspaceIds(rows'[h]) ELSE scope[h]]
    /\ UNCHANGED <<archived, managed>>

-----------------------------------------------------------------------------
(* The operator.                                                           *)

Manage(h, rs) ==
    /\ h \in known
    /\ managed < MaxManaged
    /\ rows' = [rows EXCEPT ![h] = rs]
    /\ scope' = [scope EXCEPT ![h] = WorkspaceIds(rs)]
    /\ managed' = managed + 1
    /\ UNCHANGED <<known, archived>>

add_workspace(h, w, make_primary) ==
    /\ w \notin archived
    /\ Manage(h, Upsert(rows[h], w, make_primary \/ Listed(rows[h]) = <<>>))

\* The last membership is kept; a workspace that is none is no error.
remove_workspace(h, w) ==
    /\ Active(rows[h], w)
    /\ Len(Listed(rows[h])) > 1
    /\ Manage(h, Disable(rows[h], w))

set_primary_workspace(h, w) ==
    /\ w \notin archived
    /\ Manage(h, Upsert(rows[h], w, TRUE))

archive_workspace(w) ==
    /\ w \notin archived \cup {personal}
    /\ managed < MaxManaged
    /\ archived' = archived \cup {w}
    /\ managed' = managed + 1
    /\ UNCHANGED <<known, rows, scope>>

restore_workspace(w) ==
    /\ w \in archived
    /\ archived' = archived \ {w}
    /\ UNCHANGED <<known, rows, scope, managed>>

Operate ==
    \E w \in Workspaces :
        \/ \E h \in Holders :
              \/ \E make_primary \in BOOLEAN : add_workspace(h, w, make_primary)
              \/ remove_workspace(h, w)
              \/ set_primary_workspace(h, w)
        \/ archive_workspace(w)
        \/ restore_workspace(w)

MembershipNext ==
    \/ \E h \in Holders, declared \in Declared : Seed({h}, declared)
    \/ Operate

MembershipSpec == MembershipInit /\ [][MembershipNext]_membership

-----------------------------------------------------------------------------
(* Properties.                                                             *)

Primaries(h) == {i \in DOMAIN rows[h] : rows[h][i].on /\ rows[h][i].primary}

\* The scope that routing and delivery read is the list of active memberships
\* (_sync_endpoint_scope, _sync_address_scope), no endpoint loses its last one,
\* and no holder has two primary workspaces, whatever providers declare again and
\* the operator adds, removes, re-adds and archives.
MembershipIsSound ==
    \A h \in known :
        /\ scope[h] = WorkspaceIds(rows[h])
        /\ h \in Endpoints => Listed(rows[h]) # <<>>
        /\ Cardinality(Primaries(h)) <= 1
        /\ \A i, j \in DOMAIN rows[h] : rows[h][i].ws = rows[h][j].ws => i = j

\* docs/workspace-capability-model.md: an endpoint "has one primary workspace".
OnePrimary ==
    \A e \in Endpoints \cap known : Primaries(e) # {}

\* What an operator arranged stays until an operator changes it: a provider that
\* says hello again with other workspaces alters neither rows nor scope of a
\* holder that has a membership.
ManagedStays ==
    [][\A h \in known : Listed(rows[h]) # <<>> /\ managed' = managed
            => rows'[h] = rows[h] /\ scope'[h] = scope[h]]_membership

\* All of it, with the type: what seed_endpoint_memberships, add_workspace,
\* remove_workspace and set_primary_workspace leave, in any order.
MembershipsHold == [](MembershipTypeOK /\ MembershipIsSound) /\ ManagedStays
=============================================================================
