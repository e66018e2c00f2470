------------------------------- MODULE Memory -------------------------------
(***************************************************************************)
(* The long-term memory of one user: save_memory and the operator's        *)
(* commands of tools/memory.py, the store and the consolidation of         *)
(* tools/memory_layers.py, run by the housekeeping loop of core/heart.py.  *)
(*                                                                         *)
(* The store is one object shared by all coroutines and is written to disk *)
(* whole.  A save and the consolidation give way while they wait for an    *)
(* embedding, the consolidation also while it waits for the model's patch; *)
(* between these points a coroutine runs alone.  Scores, decay and         *)
(* similarity are left open: any outcome of a comparison may happen.       *)
(***************************************************************************)
EXTENDS Naturals, FiniteSets

CONSTANTS
    Saves,          \* calls of save_memory; the episode a call adds has its name
    Text,           \* Text[s]: the canonical text, which makes saves idempotent
    Explicit,       \* saves on an explicit request to remember
    Longs,          \* ids for profiles and facts
    Profiles,       \* saves in a category of the profile; the others are facts
    Values,         \* values of the profile key, the texts among them
    keeper,         \* the housekeeping loop
    absent,         \* no record, no value
    MaxPayloads,    \* bound on the upserts of a patch
    MaxRemovals     \* bound on removals, by the operator or by age

VARIABLES
    store,          \* ids of the records
    pendingEpisodes,\* episodes tagged pending_consolidation
    explicit,       \* episodes tagged as explicit
    long,           \* long[l]: kind, value, status and sources of a long-term record
    edges,          \* pairs of ids
    place,          \* place[a]: where a save or the keeper is
    upsert,         \* upsert[a]: the upsert that waits for its embedding
    saved,          \* saved[s]: the episode that save s added or found
    told,           \* told[s]: what the caller was told
    batch,          \* episodes the keeper consolidates
    todo,           \* upserts it has still to make
    applied,        \* applied_any
    derived,        \* history: episodes some long-term record was written from
    removed,        \* history: ids removed by the operator or by age
    covered,        \* history: episodes deleted with a batch for the sake of others
    held,           \* history: ids removed while an upsert or a batch had them
    revived,        \* history: the operator made an invalidated record active
    removals        \* counter for the bound

records == <<store, pendingEpisodes, explicit, long, edges>>
saves   == <<saved, told>>
patch   == <<batch, todo, applied>>
history == <<derived, removed, covered, held, revived>>
memory == <<records, place, upsert, saves, patch, history, removals>>

ASSUME MemoryAssumption ==
    /\ Text \in [Saves -> Values] /\ Explicit \subseteq Saves
    /\ Saves \cap Longs = {} /\ keeper \notin Saves /\ absent \notin Saves \cup Longs
    /\ MaxPayloads \in Nat /\ MaxRemovals \in Nat

Actors == Saves \cup {keeper}
Ids    == Saves \cup Longs

Upserts == [kind : {"profile"}, value : Values, sources : SUBSET Saves]
           \cup [kind : {"fact"}, value : {absent}, sources : SUBSET Saves]
NoUpsert == [kind |-> "fact", value |-> absent, sources |-> {}]
LongRecords == [kind : {"profile", "fact"}, value : Values \cup {absent}, active : BOOLEAN,
                sources : SUBSET Saves]
Blank == [kind |-> "fact", value |-> absent, active |-> FALSE, sources |-> {}]

MemoryTypeOK ==
    /\ store \subseteq Ids
    /\ pendingEpisodes \subseteq Saves /\ explicit \subseteq Saves
    /\ long \in [Longs -> LongRecords]
    /\ \A e \in edges : e \subseteq Ids /\ Cardinality(e) = 2
    /\ place \in [Actors -> {"idle", "episode", "through", "done", "patch", "upserts",
                            "fallback"}]
    /\ upsert \in [Actors -> Upserts]
    /\ saved \in [Saves -> Saves \cup {absent}]
    /\ told \in [Saves -> {"none", "saved", "failed"}]
    /\ batch \subseteq Saves /\ todo \subseteq Upserts /\ applied \in BOOLEAN
    /\ derived \subseteq Saves /\ covered \subseteq Saves
    /\ removed \subseteq Ids /\ held \subseteq Ids
    /\ revived \in BOOLEAN
    /\ removals \in 0..MaxRemovals

MemoryInit ==
    /\ store = {} /\ pendingEpisodes = {} /\ explicit = {} /\ edges = {}
    /\ long = [l \in Longs |-> Blank]
    /\ place = [a \in Actors |-> "idle"]
    /\ upsert = [a \in Actors |-> NoUpsert]
    /\ saved = [s \in Saves |-> absent]
    /\ told = [s \in Saves |-> "none"]
    /\ batch = {} /\ todo = {} /\ applied = FALSE
    /\ derived = {} /\ removed = {} /\ covered = {} /\ held = {}
    /\ revived = FALSE
    /\ removals = 0

-----------------------------------------------------------------------------
(* The store.                                                              *)

IsActive(l) == l \in store /\ long[l].active

\* link_semantic_edges: to none of the active records, or to all of them.
SemanticEdges(id) ==
    {{}, {{id, o} : o \in {o \in store \ {id} : o \in Saves \/ IsActive(o)}}}

\* What coroutines have in their hands while they wait.
InUse == batch \cup UNION {upsert[a].sources : a \in Actors}

\* delete_records and prune_records: records go with their edges.
Delete(ids) ==
    /\ store' = store \ ids
    /\ edges' = {e \in edges : e \cap ids = {}}
    /\ pendingEpisodes' = pendingEpisodes \ ids
    /\ held' = held \cup (ids \cap store \cap InUse)

-----------------------------------------------------------------------------
(* apply_profile_upsert and apply_fact_upsert.  The sources were looked up *)
(* before the embedding; whether there is a record to update is asked now. *)

Existing(u) == {l \in Longs : IsActive(l) /\ long[l].kind = u.kind}

\* The active profile of the key, or a fact that is alike.
Matches(u) ==
    IF u.kind = "profile" /\ Existing(u) # {} THEN Existing(u)
    ELSE IF u.kind = "profile" THEN {absent} ELSE Existing(u) \cup {absent}

SourceEdges(l, u) == {{l, s} : s \in u.sources}

Update(l, u) ==
    /\ long' = [long EXCEPT ![l].sources = @ \cup u.sources]
    /\ \E linked \in SemanticEdges(l) : edges' = edges \cup linked \cup SourceEdges(l, u)
    /\ UNCHANGED store

\* A new record; the one it contradicts is invalidated.
Insert(l, u, old) ==
    /\ store' = store \cup {l}
    /\ long' = [x \in Longs |->
                   IF x = l THEN [kind |-> u.kind, value |-> u.value, active |-> TRUE,
                                  sources |-> u.sources]
                   ELSE IF x = old THEN [long[x] EXCEPT !.active = FALSE] ELSE long[x]]
    /\ \E linked \in SemanticEdges(l) :
          edges' = edges \cup linked \cup SourceEdges(l, u)
                         \cup (IF old = absent THEN {} ELSE {{l, old}})

\* Bug: whether there is a profile was asked before the embedding, when there
\* was none.
WriteUnseen(u) ==
    \E old \in Matches(u) \cup {absent} :
        IF old # absent /\ long[old].value = u.value THEN Update(old, u)
        ELSE \E l \in Longs \ (store \cup removed) : Insert(l, u, old)

Write(u) ==
    \E old \in Matches(u) :
        IF old # absent /\ long[old].value = u.value THEN Update(old, u)
        ELSE \E l \in Longs \ (store \cup removed) : Insert(l, u, old)

-----------------------------------------------------------------------------
(* save_memory.                                                            *)

\* apply_explicit_memory_record: the upsert for a memory that was asked for.
Remembered(r) ==
    IF r \in Profiles THEN [kind |-> "profile", value |-> Text[r], sources |-> {r}]
    ELSE [kind |-> "fact", value |-> absent, sources |-> {r}]

\* The call is over, or goes on to write an explicit memory through.
WriteThrough(s, r) ==
    /\ explicit' = IF s \in Explicit THEN explicit \cup {r} ELSE explicit
    /\ pendingEpisodes' = pendingEpisodes \cup {r}
    /\ saved' = [saved EXCEPT ![s] = r]
    /\ IF r \in explicit'
       THEN /\ place' = [place EXCEPT ![s] = "through"]
            /\ upsert' = [upsert EXCEPT ![s] = Remembered(r)]
            /\ UNCHANGED told
       ELSE /\ place' = [place EXCEPT ![s] = "done"]
            /\ told' = [told EXCEPT ![s] = "saved"]
            /\ UNCHANGED upsert

Twins(s) == {r \in Saves \cap store : Text[r] = Text[s]}

\* The text is known: its episode is pending again.
SaveAgain(s) ==
    /\ place[s] = "idle"
    /\ \E r \in Twins(s) : WriteThrough(s, r)
    /\ UNCHANGED <<store, long, edges, patch, history, removals>>

\* The text is not known, or was saved longer ago than IDEMPOTENCY_WINDOW.
SaveNew(s) ==
    /\ place[s] = "idle"
    /\ place' = [place EXCEPT ![s] = "episode"]
    /\ UNCHANGED <<records, upsert, saves, patch, history, removals>>

\* The embedding of the text came: the episode is added.
AddEpisode(s) ==
    /\ place[s] = "episode"
    /\ store' = store \cup {s}
    /\ \E linked \in SemanticEdges(s) : edges' = edges \cup linked
    /\ WriteThrough(s, s)
    /\ UNCHANGED <<long, patch, history, removals>>

NoEmbedding(s) ==
    /\ place[s] = "episode"
    /\ place' = [place EXCEPT ![s] = "done"]
    /\ told' = [told EXCEPT ![s] = "failed"]
    /\ UNCHANGED <<records, upsert, saved, patch, history, removals>>

SaveReturns(s) ==
    /\ place' = [place EXCEPT ![s] = "done"]
    /\ told' = [told EXCEPT ![s] = "saved"]
    /\ upsert' = [upsert EXCEPT ![s] = NoUpsert]
    /\ UNCHANGED <<explicit, saved, patch, removed, covered, held, revived, removals>>

\* The explicit memory was written: its episode need not be consolidated.
SaveWritten(s) ==
    /\ place[s] = "through"
    /\ Write(upsert[s])
    /\ pendingEpisodes' = pendingEpisodes \ {saved[s]}
    /\ derived' = derived \cup upsert[s].sources
    /\ SaveReturns(s)

\* There was no embedding: the episode stays pending; the caller hears the same.
SaveUnwritten(s) ==
    /\ place[s] = "through"
    /\ SaveReturns(s)
    /\ UNCHANGED <<store, long, edges, pendingEpisodes, derived>>

-----------------------------------------------------------------------------
(* The operator.                                                           *)

Operator(ids) ==
    /\ removals < MaxRemovals
    /\ removals' = removals + 1
    /\ removed' = removed \cup ids
    /\ UNCHANGED <<explicit, place, upsert, saves, patch, derived, covered>>

delete_record(id) ==
    /\ id \in store
    /\ Delete({id})
    /\ Operator({id})
    /\ UNCHANGED <<long, revived>>

clear_all ==
    /\ store # {}
    /\ Delete(store)
    /\ Operator(store)
    /\ UNCHANGED <<long, revived>>

\* Of a profile or a fact; that of an episode decides over edges only.
update_record_status(l) ==
    /\ l \in store
    /\ long' = [long EXCEPT ![l].active = ~@]
    /\ revived' = (revived \/ ~long[l].active)
    /\ Operator({})
    /\ UNCHANGED <<store, edges, pendingEpisodes, held>>

-----------------------------------------------------------------------------
(* run_housekeeping.                                                       *)

\* Records that were pruned; profiles are not while they are active.
Aged ==
    {{}} \cup (IF removals < MaxRemovals
               THEN {{id} : id \in {i \in store : i \in Longs =>
                        ~long[i].active \/ long[i].kind = "fact"}}
               ELSE {})

\* prune_records and pending_batches; the model is asked about the batch.  The
\* code prunes with nothing pending too, as delete_record may at any moment
\* here; a batch has at most PENDING_BATCH_SIZE episodes there, all of them here.
Beat ==
    /\ place[keeper] = "idle"
    /\ \E aged \in Aged :
        /\ Delete(aged)
        /\ removed' = removed \cup aged
        /\ removals' = removals + Cardinality(aged)
    /\ pendingEpisodes' # {}
    /\ place' = [place EXCEPT ![keeper] = "patch"]
    /\ batch' = pendingEpisodes'
    /\ applied' = FALSE
    /\ UNCHANGED <<explicit, long, upsert, saves, todo, derived, covered, revived>>

\* No patch, or an exception while one is applied: the batch is left as it is.
KeeperFails ==
    /\ place[keeper] # "idle"
    /\ place' = [place EXCEPT ![keeper] = "idle"]
    /\ upsert' = [upsert EXCEPT ![keeper] = NoUpsert]
    /\ batch' = {} /\ todo' = {} /\ applied' = FALSE
    /\ UNCHANGED <<records, saves, history, removals>>

Patches ==
    LET Named == {u \in Upserts : u.sources # {} /\ u.sources \subseteq batch}
    IN  UNION {{{list[i] : i \in 1..n} : list \in [1..n -> Named]} : n \in 0..MaxPayloads}

PatchCame ==
    /\ place[keeper] = "patch"
    /\ todo' \in Patches
    /\ place' = [place EXCEPT ![keeper] = "upserts"]
    /\ UNCHANGED <<records, upsert, saves, batch, applied, history, removals>>

\* The next upsert, in a patch profiles first: sources that are gone are left out, and
\* the fallback passes over what is not explicit.
TakeUpsert ==
    /\ place[keeper] \in {"upserts", "fallback"}
    /\ upsert[keeper] = NoUpsert
    /\ \E u \in todo :
        LET sources == IF place[keeper] = "upserts" THEN u.sources \cap store
                       ELSE u.sources \cap store \cap explicit
        IN  /\ place[keeper] = "upserts" /\ u.kind = "fact" => \A v \in todo : v.kind = "fact"
            /\ todo' = todo \ {u}
            /\ upsert' = [upsert EXCEPT ![keeper] =
                             IF sources = {} THEN NoUpsert ELSE [u EXCEPT !.sources = sources]]
    /\ UNCHANGED <<records, place, saves, batch, applied, history, removals>>

\* The embedding came and the upsert is made.
KeeperWrites ==
    /\ upsert[keeper] # NoUpsert
    /\ Write(upsert[keeper])
    /\ derived' = derived \cup upsert[keeper].sources
    /\ applied' = TRUE
    /\ upsert' = [upsert EXCEPT ![keeper] = NoUpsert]
    /\ UNCHANGED <<pendingEpisodes, explicit, place, saves, batch, todo, removed, covered, held,
                   revived, removals>>

\* No embedding, or too little confidence against the profile there is.
KeeperSkips ==
    /\ upsert[keeper] # NoUpsert
    /\ upsert' = [upsert EXCEPT ![keeper] = NoUpsert]
    /\ UNCHANGED <<records, place, saves, patch, history, removals>>

Idle == place[keeper] \in {"upserts", "fallback"} /\ todo = {} /\ upsert[keeper] = NoUpsert

\* apply_links, between any episodes of the batch, there or not; when nothing was
\* applied and something explicit is in the batch, it is written as it stands.
Links == {{}, {{r, q} : r, q \in batch} \ {{r} : r \in batch}}

ExplicitFallback ==
    /\ Idle /\ place[keeper] = "upserts"
    /\ ~applied /\ batch \cap explicit # {}
    /\ \E linked \in Links : edges' = edges \cup linked
    /\ todo' = {Remembered(r) : r \in batch}
    /\ place' = [place EXCEPT ![keeper] = "fallback"]
    /\ UNCHANGED <<store, pendingEpisodes, explicit, long, upsert, saves, batch, applied, history,
                   removals>>

\* Bug: the batch is deleted whatever came of it.
SettleAlways ==
    /\ store' = store \ batch
    /\ pendingEpisodes' = pendingEpisodes \ batch
    /\ held' = held \cup (batch \cap UNION {upsert[s].sources : s \in Saves})
    /\ covered' = IF applied THEN covered \cup (batch \ derived) ELSE covered

\* The batch is deleted when something was applied or nothing in it is explicit,
\* and stays pending otherwise; then records that are alike are merged.
Settle ==
    IF applied \/ batch \cap explicit = {}
    THEN /\ store' = store \ batch
         /\ pendingEpisodes' = pendingEpisodes \ batch
         /\ held' = held \cup (batch \cap UNION {upsert[s].sources : s \in Saves})
         /\ covered' = covered \cup (batch \ derived)
    ELSE /\ pendingEpisodes' = pendingEpisodes \cup (batch \cap store)
         /\ UNCHANGED <<store, held, covered>>

\* Pairs that consolidate_long_term_memory finds alike, or none.
Alike ==
    {<<>>} \cup {p \in Longs \X Longs : /\ p[1] # p[2] /\ IsActive(p[1]) /\ IsActive(p[2])
                                       /\ long[p[1]].kind = long[p[2]].kind}

Finish ==
    /\ Idle
    /\ place[keeper] = "upserts" => applied \/ batch \cap explicit = {}
    /\ Settle
    /\ \E linked \in IF place[keeper] = "upserts" THEN Links ELSE {{}},
          pair \in Alike, merged \in BOOLEAN :
        /\ long' = IF pair = <<>> \/ ~merged THEN long
                   ELSE [long EXCEPT ![pair[1]].sources = @ \cup long[pair[2]].sources,
                                     ![pair[2]].active = FALSE]
        /\ edges' = {e \in edges \cup linked : store' = store \/ e \cap batch = {}}
                    \cup (IF pair = <<>> THEN {} ELSE {{pair[1], pair[2]}})
    /\ place' = [place EXCEPT ![keeper] = "idle"]
    /\ batch' = {} /\ applied' = FALSE
    /\ UNCHANGED <<explicit, upsert, saves, todo, derived, removed, revived, removals>>

-----------------------------------------------------------------------------

Save(s) ==
    \/ SaveAgain(s) \/ SaveNew(s) \/ AddEpisode(s) \/ NoEmbedding(s)
    \/ SaveWritten(s) \/ SaveUnwritten(s)

run_housekeeping ==
    \/ Beat \/ KeeperFails \/ PatchCame \/ TakeUpsert \/ KeeperWrites \/ KeeperSkips
    \/ ExplicitFallback \/ Finish

MemoryNext ==
    \/ \E s \in Saves : Save(s)
    \/ \E id \in Ids : delete_record(id)
    \/ clear_all
    \/ \E l \in Longs : update_record_status(l)
    \/ run_housekeeping

MemorySpec == MemoryInit /\ [][MemoryNext]_memory

-----------------------------------------------------------------------------

\* A memory the user asked for, once save_memory said it is saved, has gone into
\* a profile or a fact, or its episode is there and waits for consolidation,
\* whatever embeddings and patches failed meanwhile.  Not covered: an episode
\* that the operator or age removed, and one deleted with its batch because
\* another upsert of the batch was applied.
ExplicitKept ==
    \A s \in Explicit : told[s] = "saved" =>
        saved[s] \in derived \cup removed \cup covered \cup (store \cap pendingEpisodes)

\* Saves and the consolidation that wait for embeddings at the same time leave
\* one active profile of a key, unless the operator brings an old one back.
ProfileIsOne ==
    ~revived => Cardinality({l \in Longs : IsActive(l) /\ long[l].kind = "profile"}) <= 1

\* An edge joins records that are there; one end may be missing only if it was
\* removed while a coroutine that had looked it up was waiting.
EdgesFollowRecords == \A e \in edges : e \subseteq store \cup held

\* Both, and the type: coroutines that give way for an embedding leave the store
\* consistent.
StoreIsSound == MemoryTypeOK /\ ProfileIsOne /\ EdgesFollowRecords
=============================================================================
