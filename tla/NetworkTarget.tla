---------------------------- MODULE NetworkTarget ----------------------------
(***************************************************************************)
(* Target and NetworkTargetResolver (connection/src/network_target.rs):    *)
(* a set of peers in one of six forms, the operations that combine two of  *)
(* them in place, and its resolution to connected entities with scratch    *)
(* sets that are used again for every message (server.rs of messages).     *)
(*                                                                         *)
(* A list may hold a peer twice.  Lists longer than Inline take other      *)
(* paths than shorter ones.                                                *)
(***************************************************************************)
EXTENDS Integers, FiniteSets, Sequences, SequencesExt

CONSTANTS
    PeerIds,         \* PeerId; the client entity of a peer has its name
    Strays,          \* connected entities that no peer maps to
    Inline,          \* INLINE_TARGET_CAPACITY
    MaxList          \* bound on the lists that the application writes

ASSUME TargetAssumption ==
    Inline \in Nat \ {0} /\ MaxList \in Nat /\ PeerIds \cap Strays = {}

VARIABLES
    target,      \* a Target that is changed in place
    members,     \* history: the peers it should stand for
    requested,   \* NetworkTargetResolver::requested
    reached,     \* the entities that the latest call reached
    wanted       \* history: the entities that it should reach

targetVars == <<target, members, requested, reached, wanted>>

Tgt(form, ids) == [form |-> form, ids |-> ids]
All == Tgt("All", <<>>)
Nobody == Tgt("None", <<>>)

Including == {"Single", "Only"}
Excluding == {"AllExceptSingle", "AllExcept"}

Targets(t, p) ==
    \/ t.form = "All"
    \/ t.form \in Including /\ Contains(t.ids, p)
    \/ t.form \in Excluding /\ ~Contains(t.ids, p)

-----------------------------------------------------------------------------
(***************************************************************************)
(* Lists.                                                                  *)
(***************************************************************************)
\* The elements of `extra' that are not in the list yet, appended in order.
AppendNew(list, extra) ==
    LET grown[n \in 0 .. Len(extra)] ==
            IF n = 0 THEN list
            ELSE IF Contains(grown[n - 1], extra[n]) THEN grown[n - 1]
            ELSE Append(grown[n - 1], extra[n])
    IN  grown[Len(extra)]

Deduplicate(list) == AppendNew(<<>>, list)

AnyInline(l, r) == Len(l) <= Inline \/ Len(r) <= Inline

AppendUnique(list, extra) ==
    IF AnyInline(list, extra) THEN AppendNew(list, extra)
    ELSE AppendNew(Deduplicate(list), extra)

\* The elements of the list that the other one contains, or does not contain.
Select(list, other, present) ==
    LET kept[n \in 0 .. Len(list)] ==
            IF n = 0 THEN <<>>
            ELSE IF Contains(other, list[n]) = present THEN Append(kept[n - 1], list[n])
            ELSE kept[n - 1]
    IN  kept[Len(list)]

\* A mutant of RetainMembership: the set of the large path is filled from the
\* list itself.
RetainMembershipOwn(list, other, present) ==
    IF AnyInline(list, other) THEN Select(list, other, present)
    ELSE Deduplicate(Select(list, list, present))

RetainMembership(list, other, present) ==
    IF AnyInline(list, other) THEN Select(list, other, present)
    ELSE Deduplicate(Select(list, other, present))

-----------------------------------------------------------------------------
(***************************************************************************)
(* Targets.                                                                *)
(***************************************************************************)
Compact(t) ==
    CASE t.form = "Only" /\ t.ids = <<>> -> Nobody
      [] t.form = "Only" /\ Len(t.ids) = 1 -> Tgt("Single", t.ids)
      [] t.form = "AllExcept" /\ t.ids = <<>> -> All
      [] t.form = "AllExcept" /\ Len(t.ids) = 1 -> Tgt("AllExceptSingle", t.ids)
      [] OTHER -> t

Normalize(t) ==
    IF t.form \in {"Only", "AllExcept"} THEN Compact(Tgt(t.form, Deduplicate(t.ids))) ELSE t

OnlyUnique(list) == Compact(Tgt("Only", Deduplicate(list)))
AllExceptUnique(list) == Compact(Tgt("AllExcept", Deduplicate(list)))

Opposite == [None |-> "All", All |-> "None", Single |-> "AllExceptSingle",
             AllExceptSingle |-> "Single", Only |-> "AllExcept", AllExcept |-> "Only"]

\* Target::inverse
Complement(t) == Tgt(Opposite[t.form], t.ids)

Intersection(t, u) ==
    IF t.form = "None" \/ u.form = "All" THEN t
    ELSE IF u.form = "None" THEN Nobody
    ELSE IF t.form = "All" THEN u
    ELSE
    CASE t.form \in Excluding /\ u.form \in Including ->
            OnlyUnique(Select(u.ids, t.ids, FALSE))
      [] t.form = "AllExceptSingle" /\ u.form \in Excluding ->
            AllExceptUnique(t.ids \o u.ids)
      [] t.form = "AllExcept" /\ u.form \in Excluding ->
            Compact(Tgt("AllExcept", AppendUnique(t.ids, u.ids)))
      [] t.form = "Only" ->
            Compact(Tgt("Only", RetainMembership(t.ids, u.ids, u.form \in Including)))
      [] OTHER -> IF Targets(u, t.ids[1]) THEN t ELSE Nobody

Union(t, u) ==
    IF t.form = "All" \/ u.form = "None" THEN t
    ELSE IF u.form = "All" THEN All
    ELSE IF t.form = "None" THEN u
    ELSE
    CASE t.form = "AllExceptSingle" -> IF Targets(u, t.ids[1]) THEN All ELSE t
      [] t.form = "AllExcept" /\ u.form = "AllExceptSingle" ->
            IF Contains(t.ids, u.ids[1]) THEN u ELSE All
      [] t.form = "AllExcept" /\ u.form # "AllExceptSingle" ->
            Compact(Tgt("AllExcept", RetainMembership(t.ids, u.ids, u.form = "AllExcept")))
      [] t.form \in Including /\ u.form \in Excluding ->
            AllExceptUnique(Select(u.ids, t.ids, FALSE))
      [] t.form = "Only" /\ u.form \in Including ->
            Compact(Tgt("Only", AppendUnique(t.ids, u.ids)))
      [] OTHER -> OnlyUnique(t.ids \o u.ids)

Exclude(t, u) ==
    IF t.form = "None" \/ u.form = "None" THEN t
    ELSE IF u.form = "All" THEN Nobody
    ELSE IF t.form = "All" THEN Compact(Complement(u))
    ELSE
    CASE t.form \in Excluding /\ u.form \in Excluding ->
            OnlyUnique(Select(u.ids, t.ids, FALSE))
      [] t.form = "AllExceptSingle" /\ u.form \in Including ->
            AllExceptUnique(t.ids \o u.ids)
      [] t.form = "AllExcept" /\ u.form \in Including ->
            Compact(Tgt("AllExcept", AppendUnique(t.ids, u.ids)))
      [] t.form = "Only" ->
            Compact(Tgt("Only", RetainMembership(t.ids, u.ids, u.form \in Excluding)))
      [] OTHER -> IF Targets(u, t.ids[1]) THEN Nobody ELSE t

Insert(t, p) ==
    CASE t.form = "AllExceptSingle" -> IF t.ids = <<p>> THEN All ELSE t
      [] t.form = "AllExcept" -> Tgt("AllExcept", Select(t.ids, <<p>>, FALSE))
      [] t.form = "Only" -> Tgt("Only", AppendNew(t.ids, <<p>>))
      [] t.form = "Single" -> IF t.ids = <<p>> THEN t ELSE Tgt("Only", t.ids \o <<p>>)
      [] t.form = "None" -> Tgt("Single", <<p>>)
      [] OTHER -> t

Extend(t, list) ==
    LET grown[n \in 0 .. Len(list)] ==
            IF n = 0 THEN Normalize(t) ELSE Insert(grown[n - 1], list[n])
    IN  Normalize(grown[Len(list)])

FromExclude(list) == Complement(Extend(Nobody, list))

-----------------------------------------------------------------------------
(***************************************************************************)
(* Resolution.  `mapped' are the peers of the peer map, `clients' the      *)
(* connected entities of the server.                                       *)
(***************************************************************************)
EntitiesOf(list, mapped) == ToSet(list) \cap mapped

InlinePath(t, clients) == Cardinality(clients) <= Inline /\ Len(t.ids) <= Inline

\* A mutant of NewRequested: what an earlier message asked for is kept.
NewRequestedKept(t, clients, mapped) ==
    requested \cup (IF t.form = "Only" THEN EntitiesOf(t.ids, mapped) ELSE {})

\* The scratch set is cleared and filled by the large path of Only.
NewRequested(t, clients, mapped) ==
    IF t.form = "Only" /\ ~InlinePath(t, clients) THEN EntitiesOf(t.ids, mapped) ELSE {}

Resolved(t, clients, mapped, scratch) ==
    CASE t.form = "All" -> clients
      [] t.form \in Excluding -> clients \ EntitiesOf(t.ids, mapped)
      [] t.form = "Single" -> clients \cap EntitiesOf(t.ids, mapped)
      [] t.form = "Only" /\ InlinePath(t, clients) -> clients \cap EntitiesOf(t.ids, mapped)
      [] t.form = "Only" /\ ~InlinePath(t, clients) -> clients \cap scratch
      [] OTHER -> {}

\* A peer without an entity stands for Entity::PLACEHOLDER, which is no client.
Applied(t, clients, mapped) ==
    CASE t.form = "All" -> clients
      [] t.form \in Excluding -> {e \in clients : e \notin EntitiesOf(t.ids, mapped)}
      [] t.form \in Including -> {e \in clients : e \in EntitiesOf(t.ids, mapped)}
      [] OTHER -> {}

-----------------------------------------------------------------------------
Lists == UNION {[1..n -> PeerIds] : n \in 0..MaxList}

Literals ==
    {All, Nobody}
    \cup [form : {"Single", "AllExceptSingle"}, ids : {<<p>> : p \in PeerIds}]
    \cup [form : {"Only", "AllExcept"}, ids : Lists]

MembersOf(t) == {p \in PeerIds : Targets(t, p)}

TargetInit ==
    /\ target = Nobody /\ members = {}
    /\ requested = {} /\ reached = {} /\ wanted = {}

Becomes(t, m) == target' = t /\ members' = m /\ UNCHANGED <<requested, reached, wanted>>

Rewrite ==
    \/ \E u \in Literals :
          \/ Becomes(u, MembersOf(u))
          \/ Becomes(Intersection(target, u), members \cap MembersOf(u))
          \/ Becomes(Union(target, u), members \cup MembersOf(u))
          \/ Becomes(Exclude(target, u), members \ MembersOf(u))
    \/ \E list \in Lists :
          \/ Becomes(Extend(target, list), members \cup ToSet(list))
          \/ Becomes(FromExclude(list), PeerIds \ ToSet(list))
    \/ Becomes(Complement(target), PeerIds \ members)

\* An entity that no peer maps to is reached by All and by exclusions only.
Wanted(clients, mapped) ==
    {e \in clients : IF e \in mapped THEN e \in members
                     ELSE target.form \in Excluding \cup {"All"}}

\* ServerMultiMessageSender::send_with_priority.  resolve starts from an empty
\* `targets', so that nothing of it outlives the call.
SendToTargets(clients, mapped) ==
    /\ requested' = NewRequested(target, clients, mapped)
    /\ reached' = Resolved(target, clients, mapped, requested')
    /\ wanted' = Wanted(clients, mapped)
    /\ UNCHANGED <<target, members>>

\* apply_targets, which replication uses.
Apply(clients, mapped) ==
    /\ reached' = Applied(target, clients, mapped)
    /\ wanted' = Wanted(clients, mapped)
    /\ UNCHANGED <<target, members, requested>>

TargetNext ==
    \/ Rewrite
    \/ \E clients \in SUBSET (PeerIds \cup Strays), mapped \in SUBSET PeerIds :
          SendToTargets(clients, mapped) \/ Apply(clients, mapped)

TargetSpec == TargetInit /\ [][TargetNext]_targetVars

-----------------------------------------------------------------------------
(***************************************************************************)
(* However targets are combined, in whatever form and with whatever lists, *)
(* the result stands for the set it should, and a message is sent to       *)
(* exactly the connected entities of that set, whatever the resolver was   *)
(* used for before.                                                        *)
(***************************************************************************)
TargetsExact == MembersOf(target) = members /\ reached = wanted
=============================================================================
