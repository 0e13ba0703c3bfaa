---------------------------- MODULE VolumeLabels ----------------------------
(***************************************************************************)
(* The labels of a volume and of a snapshot.  Three parties write them:    *)
(* the controller, from the claim and its annotations, when it creates an  *)
(* entry and again whenever it publishes a volume; the command line, with  *)
(* a read, an edit and a write of the whole map; and the agent, which adds *)
(* what a clone came from and protects the labels nobody may change.  The  *)
(* owner in created-by is what keeps the command line from deleting what   *)
(* Kubernetes uses.                                                        *)
(*                                                                         *)
(* The agent checks an update against the labels it read and writes it     *)
(* later: these are two steps.  One key stands for those that always go    *)
(* together: "pvc" for name, namespace and class of the claim, "pv" for    *)
(* name and class of the volume, and so on.  A map of labels is a set of   *)
(* pairs of key and value, one for each key.  Of the parameters nocow and  *)
(* compression are here, which exclude each other; uid, gid and mode are   *)
(* checked one by one.  Compression "" is "none".                          *)
(***************************************************************************)
EXTENDS Naturals, Sequences, FiniteSets, FiniteSetsExt

CONSTANTS Volumes, Snapshots,
          Publishers,       \* calls of ControllerPublishVolume at a time
          Commands,         \* commands of the CLI at a time
          KeyOrder,         \* the label keys users come up with, sorted
          ValidKeys,        \* the ones among them that are valid
          ValidValues,      \* valid label values, the empty one included
          Annotations,      \* what a user may write: a list of pairs and parameters
          Arguments,        \* lists of pairs that are given to the CLI
          Settings,         \* the parameters that are given to volume set
          DefaultLabels,    \* DRIVER_DEFAULT_LABELS, a list of pairs
          Immutables,       \* the settings of AGENT_IMMUTABLE_LABELS
          Compressions,     \* the algorithms, Plain among them
          BadParam,         \* a value of a parameter that is invalid
          ClassParams,      \* the parameters a StorageClass may name
          LongName,         \* a claim's name that is no valid label value
          MaxLabels, MaxUserLabels,
          MaxEdits,         \* bound: edits by users and operators
          None

Items == Volumes \cup Snapshots
Calls == Publishers \cup Commands

CreatedBy == "created-by"
CloneKeys == {"clone.source.type", "clone.source.name"}
SoftReserved == {CreatedBy} \cup CloneKeys
ReservedKeys == SoftReserved \cup {"pvc", "pv", "source", "snapshot", "node"}
K8s == "k8s"
Cli == "cli"

Plain == "none"
ParamValues == [nocow |-> BOOLEAN, comp |-> Compressions]
Params == [nocow : BOOLEAN, comp : Compressions]
Asked == [nocow : BOOLEAN \cup {None}, comp : Compressions \cup {None}]
NoParams == [nocow |-> None, comp |-> None]
DefaultParams == [nocow |-> FALSE, comp |-> Plain]
Allowed(p) == ~(p.nocow = TRUE /\ p.comp # Plain)

VARIABLES item,         \* item -> its labels and parameters, or None
          used,         \* the names that were created
          origin,       \* item -> who creates it, or "legacy"
          claim,        \* the name, source and class parameters of the claims
          anno,         \* item -> annotation: labels and parameters
          immutable,    \* the agent's immutable label keys
          call,         \* call -> what it does and how far it is
          edits

setting == <<origin, claim, anno, immutable>>
vars == <<item, used, setting, call, edits>>

Protected == immutable \cup SoftReserved
KeysOf(L) == {p[1] : p \in L}
Only(L, K) == {p \in L : p[1] \in K}
Without(L, K) == {p \in L : p[1] \notin K}
Put(L, M) == M \cup Without(L, KeysOf(M))
Or(x, otherwise) == IF x = None THEN otherwise ELSE x
Fill(asked, otherwise) == [f \in DOMAIN asked |-> Or(asked[f], otherwise[f])]
Value(L, k) == IF k \in KeysOf(L) THEN (CHOOSE p \in L : p[1] = k)[2] ELSE ""
Exists(i) == item[i] # None
Owner(i) == Value(item[i].labels, CreatedBy)

Idle == [at |-> "idle", op |-> "none", item |-> None, labels |-> None, params |-> NoParams]

IsLabels(L) ==
    /\ L \subseteq (ReservedKeys \cup ValidKeys) \X ValidValues
    /\ \A p, q \in L : p[1] = q[1] => p = q

TypeOK ==
    /\ DOMAIN item = Items
    /\ \A i \in Items : Exists(i) => /\ i \in used
                                     /\ item[i].params \in Params
    /\ used \subseteq Items
    /\ origin \in [Items -> {"claim", "cli", "legacy"}]
    /\ immutable \in {{CreatedBy} \cup K : K \in Immutables}
    /\ DOMAIN call = Calls
    /\ \A c \in Calls : /\ call[c].at \in {"idle", "sent", "checked"}
                        /\ call[c].op \in {"none", "update", "delete", "force"}
                        /\ call[c].item \in Items \cup {None}
                        /\ call[c].params \in Asked
                        /\ call[c].at = "checked" =>
                              call[c].labels = None \/ IsLabels(call[c].labels)
    /\ edits \in 0..MaxEdits

(* A volume from before release 0.10.0 has no created-by.  Entries do not  *)
(* meet: a behaviour has one of them, the others' names are used up.       *)
Init ==
    /\ \E i \in Items, o \in {"claim", "cli", "legacy"}, p \in Params :
          /\ IF o = "legacy" THEN i \in Volumes /\ Allowed(p) ELSE p = DefaultParams
          /\ origin = [j \in Items |-> o]
          /\ used = IF o = "legacy" THEN Items ELSE Items \ {i}
          /\ item = [j \in Items |->
                        IF j = i /\ o = "legacy" THEN [labels |-> {}, params |-> p] ELSE None]
          /\ claim \in [name : {"name", LongName},
                        clone : IF o = "claim" THEN BOOLEAN ELSE {FALSE},
                        params : IF o = "claim" THEN ClassParams ELSE {NoParams}]
    /\ anno = [i \in Items |-> [labels |-> <<>>, params |-> NoParams]]
    /\ immutable \in {{CreatedBy} \cup K : K \in Immutables}
    /\ call = [c \in Calls |-> Idle]
    /\ edits = 0

Edit == edits < MaxEdits /\ edits' = edits + 1
-----------------------------------------------------------------------------
(* parseLabels: of two pairs with one key the later one counts.            *)
ParseLabels(raw) ==
    {raw[n] : n \in {n \in DOMAIN raw : \A m \in n+1..Len(raw) : raw[m][1] # raw[n][1]}}

(* Mutant: only the labels are validated, not their number.                *)
ValidLabelsAnyNumber(L) == IsLabels(L)

(* config.ValidateLabels.                                                  *)
ValidLabels(L) == Cardinality(L) <= MaxLabels /\ IsLabels(L)

EnvDefaultLabels ==
    Without(ParseLabels(DefaultLabels), ReservedKeys) \cap (ValidKeys \X ValidValues)

(* Keys and values have a limited length, and users' keys are sorted.      *)
ASSUME FiniteLabels ==
    /\ IsFiniteSet(ValidKeys) /\ IsFiniteSet(ValidValues) /\ IsFiniteSet(UNION Immutables)
    /\ MaxLabels \in Nat /\ MaxUserLabels \in Nat
ASSUME SettingsAsked == Settings \subseteq Asked
ASSUME ListsOfPairs == \A a \in Annotations : a.labels \in Seq(STRING \X STRING)
ASSUME KeysSorted ==
    /\ KeyOrder \in Seq(STRING)
    /\ \A m, n \in DOMAIN KeyOrder : KeyOrder[m] = KeyOrder[n] => m = n
    /\ \A k \in ValidKeys : \E n \in DOMAIN KeyOrder : KeyOrder[n] = k

(* With so many default labels that a clone or a snapshot of a claim does  *)
(* not fit any more, it is never created.                                  *)
ASSUME LabelsFit == Cardinality(EnvDefaultLabels) + MaxUserLabels + 4 <= MaxLabels

Precedes(j, k) ==
    \E m, n \in DOMAIN KeyOrder : m < n /\ KeyOrder[m] = j /\ KeyOrder[n] = k

(* Of labels L the first MaxUserLabels, in the order of their keys.        *)
FirstLabels(L) ==
    {p \in L : Cardinality({q \in L : Precedes(q[1], p[1])}) < MaxUserLabels}

(* Mutant: an invalid label of the user is passed on.                      *)
MergeUserLabelsUnchecked(dst, user) == Put(dst, FirstLabels(Without(user, ReservedKeys)))

(* mergeUserLabels: in the order of the keys, the first valid ones that    *)
(* are not reserved.                                                       *)
MergeUserLabels(dst, user) ==
    Put(dst, FirstLabels(Without(user, ReservedKeys) \cap (ValidKeys \X ValidValues)))

(* The labels resolveVolumeParams gives to a claim's volume, and the       *)
(* parameters it takes from the annotations, skipping invalid ones.        *)
VolumeLabelsOf(v) ==
    MergeUserLabels(
        Put(EnvDefaultLabels, {<<"pvc", claim.name>>, <<CreatedBy, K8s>>}),
        ParseLabels(anno[v].labels))

AnnotatedParams(v, otherwise) ==
    [f \in DOMAIN ParamValues |-> IF anno[v].params[f] \in ParamValues[f]
                                    THEN anno[v].params[f] ELSE otherwise[f]]

(* resolveSnapshotLabels; the claim of the source may not be found.        *)
SnapshotLabelsOf(s, found) ==
    LET own == Put(EnvDefaultLabels, {<<"pv", "name">>, <<"snapshot", "name">>})
    IN  MergeUserLabels(IF found THEN Put(own, {<<"source", claim.name>>}) ELSE own,
                        ParseLabels(anno[s].labels))

(* parseLabelsFlag: cut off first, reserved keys skipped afterwards.       *)
FlagLabels(raw) ==
    Without(ParseLabels(SubSeq(raw, 1, Min({Len(raw), MaxUserLabels}))), SoftReserved)

(* Client.ensureIdentity.                                                  *)
EnsureIdentity(L, identity) == Put({<<CreatedBy, identity>>}, L)
-----------------------------------------------------------------------------
(* requireImmutableLabels.                                                 *)
Required(L) == \A k \in immutable : Value(L, k) # ""

(* The agent creates an entry: what it was cloned from is added, then the  *)
(* labels are validated and the immutable ones required.                   *)
Create(i, L, clone, params) ==
    LET source == CloneKeys \X {"name"}
        labels == IF clone THEN Put(L, source) ELSE L
    IN  /\ i \notin used
        /\ ValidLabels(labels) /\ Required(labels)
        /\ item' = [item EXCEPT ![i] = [labels |-> labels, params |-> params]]
        /\ used' = used \cup {i}
        /\ UNCHANGED <<setting, call, edits>>

(* What a claim that is no clone asks for: annotations before the class.   *)
Wanted(v) == Fill(AnnotatedParams(v, claim.params), DefaultParams)

(* Controller CreateVolume: a bad parameter of the class is an error.  A   *)
(* clone keeps the parameters of its source; otherwise the agent refuses   *)
(* nocow together with compression.  (A claim that cannot be read is an    *)
(* error too: nothing happens.)                                            *)
CreateVolume(v) ==
    /\ origin[v] = "claim" /\ claim.params \in Asked
    /\ \E p \in Params :
          /\ ~claim.clone => p = Wanted(v) /\ Allowed(p)
          /\ Create(v, EnsureIdentity(VolumeLabelsOf(v), K8s), claim.clone, p)

CreateSnapshot(s) ==
    /\ origin[s] = "claim"
    /\ \E found \in BOOLEAN, p \in Params :
          Create(s, EnsureIdentity(SnapshotLabelsOf(s, found), K8s), FALSE, p)

(* A command that creates an entry; the parameters of a clone or of a      *)
(* snapshot are those of its source.                                       *)
CommandCreates(i, raw, clone, p) ==
    /\ origin[i] = "cli" /\ p \in Params
    /\ Create(i, EnsureIdentity(FlagLabels(raw), Cli), clone, p)

CliVolumeCreate(v, raw, p) ==
    v \in Volumes /\ Allowed(p) /\ CommandCreates(v, raw, FALSE, p)
CliVolumeClone(v, raw, p) == v \in Volumes /\ CommandCreates(v, raw, TRUE, p)
CliSnapshotCreate(s, raw, p) == s \in Snapshots /\ CommandCreates(s, raw, FALSE, p)
CliSnapshotClone(v, raw, p) == v \in Volumes /\ CommandCreates(v, raw, TRUE, p)
-----------------------------------------------------------------------------
Send(c, op, i, L, p) ==
    /\ call[c] = Idle
    /\ call' = [call EXCEPT ![c] = [at |-> "sent", op |-> op, item |-> i,
                                    labels |-> L, params |-> p]]
    /\ UNCHANGED <<item, used, setting>>

Return(c) == call' = [call EXCEPT ![c] = Idle]

(* ControllerPublishVolume sends the labels and parameters anew; what the  *)
(* agent answers is logged only.  (A claim that cannot be read: no update.)*)
ControllerPublishVolume(p, v) ==
    /\ Exists(v) /\ UNCHANGED edits
    /\ Send(p, "update", v, VolumeLabelsOf(v), AnnotatedParams(v, NoParams))

(* volume label add, remove and patch: the labels are read and the whole   *)
(* map is sent.  (remove with a value that does not match is an error, and *)
(* add to a volume without any label ends in a panic.)                     *)
LabelAdd(c, v, raw) ==
    /\ Exists(v) /\ item[v].labels # {} /\ Edit
    /\ Send(c, "update", v, Put(item[v].labels, ParseLabels(raw)), NoParams)

LabelRemove(c, v, key) ==
    /\ Exists(v) /\ Edit
    /\ key \in KeysOf(item[v].labels)
    /\ Send(c, "update", v, Without(item[v].labels, {key}), NoParams)

LabelPatch(c, v, raw) ==
    /\ Exists(v) /\ Edit
    /\ Send(c, "update", v, Put(Only(item[v].labels, SoftReserved), ParseLabels(raw)), NoParams)

(* volume set names parameters and no labels.                              *)
CliVolumeSet(c, v, p) == Edit /\ Send(c, "update", v, None, p)

(* volume delete and snapshot delete look at the owner first, unless the   *)
(* user confirms.                                                          *)
CommandDeletes(c, i) ==
    /\ Exists(i) /\ UNCHANGED edits
    /\ \/ Owner(i) = Cli /\ Send(c, "delete", i, None, NoParams)
       \/ Send(c, "force", i, None, NoParams)

CliVolumeDelete(c, v) == v \in Volumes /\ CommandDeletes(c, v)
CliSnapshotDelete(c, s) == s \in Snapshots /\ CommandDeletes(c, s)
-----------------------------------------------------------------------------
(* An update names a protected label with another value; an old volume's   *)
(* created-by may be filled in.                                            *)
Changes(cur, L) ==
    \E p \in Only(L, Protected) :
        p[2] # Value(cur, p[1]) /\ ~(p[1] = CreatedBy /\ Value(cur, CreatedBy) = "")

(* Mutant: a protected label that the update leaves out is dropped.        *)
KeepNothing(cur, L) == L

(* A protected label that the update leaves out is put back.               *)
KeepProtected(cur, L) ==
    Put(L, {p \in Only(cur, Protected) : p[2] # ""})

(* An update of entry x is refused: its labels are invalid or change a     *)
(* protected one, or it names a compression and the volume is NoCOW.       *)
Refused(x, r) ==
    \/ x = None
    \/ r.labels # None /\ (~ValidLabels(r.labels) \/ Changes(x.labels, r.labels))
    \/ r.params.comp \notin {None, Plain} /\ x.params.nocow

(* Storage.UpdateVolume up to the write: validation, against the entry as  *)
(* it is now, and the operations on the data, one of which may fail: then  *)
(* the call is over.  NoCOW cannot be reverted, asking for it is ignored.  *)
CheckUpdate(c) ==
    LET r == call[c]
        x == item[r.item]
        labels == IF r.labels = None THEN None ELSE KeepProtected(x.labels, r.labels)
        nocow == IF r.params.nocow = FALSE /\ x.params.nocow THEN None ELSE r.params.nocow
    IN  /\ r.at = "sent" /\ r.op = "update"
        /\ \/ Return(c)
           \/ /\ ~Refused(x, r)
              /\ call' = [call EXCEPT ![c] =
                            [at |-> "checked", op |-> r.op, item |-> r.item, labels |-> labels,
                             params |-> [r.params EXCEPT !.nocow = nocow]]]
        /\ UNCHANGED <<item, used, setting, edits>>

(* Mutant: the labels of an update are added to those that are there.      *)
WriteUpdateMerges(c) ==
    LET r == call[c]
        i == r.item
    IN  /\ r.at = "checked" /\ Return(c)
        /\ item' = IF Exists(i)
                     THEN [item EXCEPT ![i] = [labels |-> Put(@.labels, Or(r.labels, {})),
                                               params |-> Fill(r.params, @.params)]]
                     ELSE item
        /\ UNCHANGED <<used, setting, edits>>

(* Store.Update at its end: the map is replaced.                           *)
WriteUpdate(c) ==
    LET r == call[c]
        i == r.item
    IN  /\ r.at = "checked" /\ Return(c)
        /\ item' = IF Exists(i)
                     THEN [item EXCEPT ![i] = [labels |-> Or(r.labels, @.labels),
                                               params |-> Fill(r.params, @.params)]]
                     ELSE item
        /\ UNCHANGED <<used, setting, edits>>

(* The agent deletes for the command line; and for the controller.         *)
Delete(c) ==
    /\ call[c].op \in {"delete", "force"} /\ Return(c)
    /\ item' = [item EXCEPT ![call[c].item] = None]
    /\ UNCHANGED <<used, setting, edits>>

ClaimDeleted(i) ==
    /\ Exists(i) /\ origin[i] = "claim"
    /\ item' = [item EXCEPT ![i] = None]
    /\ UNCHANGED <<used, setting, call, edits>>

(* A user rewrites the annotations of a claim or a VolumeSnapshot.         *)
Annotate(i, a) ==
    /\ Edit /\ anno[i] # a
    /\ anno' = [anno EXCEPT ![i] = a]
    /\ UNCHANGED <<item, used, origin, claim, immutable, call>>

(* The agent restarts, with another AGENT_IMMUTABLE_LABELS or the same     *)
(* (ImmutableLabelKeys).  The calls it served fail; those that a client    *)
(* has read for and sends later reach the new one, or fail.                *)
AgentRestart(K) ==
    /\ Edit /\ immutable' = {CreatedBy} \cup K
    /\ \E late \in SUBSET {c \in Calls : call[c].at = "sent"} :
          call' = [c \in Calls |-> IF c \in late THEN call[c] ELSE Idle]
    /\ UNCHANGED <<item, used, origin, claim, anno>>
-----------------------------------------------------------------------------
ControllerStep == \/ \E v \in Volumes : CreateVolume(v)
                  \/ \E s \in Snapshots : CreateSnapshot(s)
                  \/ \E p \in Publishers, v \in Volumes : ControllerPublishVolume(p, v)

CommandStep ==
    \/ \E i \in Items, raw \in Arguments, p \in Params :
          \/ CliVolumeCreate(i, raw, p) \/ CliVolumeClone(i, raw, p)
          \/ CliSnapshotCreate(i, raw, p) \/ CliSnapshotClone(i, raw, p)
    \/ \E c \in Commands, v \in Volumes :
          \/ \E raw \in Arguments : LabelAdd(c, v, raw) \/ LabelPatch(c, v, raw)
          \/ \E key \in ReservedKeys \cup ValidKeys : LabelRemove(c, v, key)
          \/ \E p \in Settings : CliVolumeSet(c, v, p)
    \/ \E c \in Commands, i \in Items : CliVolumeDelete(c, i) \/ CliSnapshotDelete(c, i)

AgentStep == \/ \E c \in Calls : CheckUpdate(c) \/ WriteUpdate(c) \/ Delete(c)
             \/ \E i \in Items : ClaimDeleted(i)

UserStep == \/ \E i \in Items, a \in Annotations : Annotate(i, a)
            \/ \E K \in Immutables : AgentRestart(K)

Next == ControllerStep \/ CommandStep \/ AgentStep \/ UserStep

Spec == Init /\ [][Next]_vars

(* Kubernetes calls CreateVolume and CreateSnapshot until they succeed.    *)
FairSpec ==
    /\ Spec
    /\ \A v \in Volumes : WF_vars(CreateVolume(v))
    /\ \A s \in Snapshots : WF_vars(CreateSnapshot(s))
-----------------------------------------------------------------------------
(* No update, whoever races whom, changes or drops a label that is         *)
(* protected; the exception is the created-by of a volume from before      *)
(* 0.10.0, which two updates can fill in at once.                          *)
ProtectedKept ==
    [][\A i \in Items : Exists(i) /\ item'[i] # None =>
          \A p \in Only(item[i].labels, Protected) :
              \/ p \in item'[i].labels \/ p[2] = ""
              \/ origin[i] = "legacy" /\ p[1] = CreatedBy]_vars

(* The command line does not delete what another client created, unless    *)
(* the user confirms, although it looks at the owner first and deletes     *)
(* later: the owner cannot change in between.                              *)
CliDeletesOwn ==
    [][\A c \in Commands :
          Delete(c) /\ call[c].op = "delete" /\ Exists(call[c].item) =>
              Owner(call[c].item) = Cli \/ origin[call[c].item] = "legacy"]_vars

(* The keys whose labels may be put back, after the validation of an       *)
(* update of an entry of origin o, on top of its MaxLabels: the immutable  *)
(* ones, which an agent with other settings let in, and the created-by of  *)
(* a volume from before 0.10.0, which an update that read the labels       *)
(* without it can meet.  Others that were put back were in what was read.  *)
PutBack(o) ==
    ((UNION Immutables) \ {CreatedBy}) \cup (IF o = "legacy" THEN {CreatedBy} ELSE {})

(* "Max 8 user labels, max 32 total" (configuration.md:91): no entry has   *)
(* more labels than that.                                                  *)
LabelLimit == \A i \in Items : Exists(i) => Cardinality(item[i].labels) <= MaxLabels

(* What holds of that limit, which an update is checked against before the *)
(* protected labels it left out are put back (LabelLimit fails): whatever  *)
(* users annotate and type, a stored map has valid keys and values, and    *)
(* more than MaxLabels labels only by those put back.                      *)
StoredLabelsValid ==
    \A i \in Items : Exists(i) =>
        /\ IsLabels(item[i].labels)
        /\ Cardinality(item[i].labels) <= MaxLabels + Cardinality(PutBack(origin[i]))

(* The invariants behind these properties.  What nobody may change of the  *)
(* labels L of an entry of origin o, when the keys P are protected, and    *)
(* that keys K are not too many without those put back:                    *)
Kept(o, P, L) == {p \in Only(L, P) : p[2] # "" /\ (p[1] = CreatedBy => o # "legacy")}
Counted(o, K) == Cardinality(K \ PutBack(o)) <= MaxLabels

(* A stored map is valid and has an owner.                                 *)
EntrySound(x, o) ==
    /\ IsLabels(x.labels) /\ Counted(o, KeysOf(x.labels))
    /\ o # "legacy" => Value(x.labels, CreatedBy) # ""

(* For call r on entry x: labels that are sent do not exceed the limit     *)
(* with what will be put back, if they do not by themselves; labels that   *)
(* were checked have exactly the protected ones of the entry, so that      *)
(* nobody can change those between check and write; and what a command     *)
(* found to be its own stays its own.                                      *)
CallSound(r, x, o, P) ==
    /\ r.at = "checked" => r.op = "update"
    /\ r.at = "sent" /\ r.labels # None /\ x # None /\ ValidLabels(r.labels) =>
          Counted(o, KeysOf(r.labels) \cup KeysOf(Only(Kept(o, P, x.labels), SoftReserved)))
    /\ r.at = "checked" /\ r.labels # None /\ x # None =>
          /\ IsLabels(r.labels) /\ Counted(o, KeysOf(r.labels))
          /\ Kept(o, P, r.labels) = Kept(o, P, x.labels)
    /\ r.op = "delete" /\ x # None => Value(x.labels, CreatedBy) = Cli \/ o = "legacy"

Shaped ==
    /\ DOMAIN item = Items /\ DOMAIN call = Calls /\ DOMAIN anno = Items
    /\ \A i \in Items : anno[i].labels \in Seq(STRING \X STRING)
    /\ immutable \in {{CreatedBy} \cup K : K \in Immutables}

StoredSound ==
    \A i \in Items : Exists(i) => i \in used /\ EntrySound(item[i], origin[i])

(* A call that names labels or deletes is about a name that was created,   *)
(* and names are not used again.                                           *)
CallsSound ==
    \A c \in Calls :
        LET r == call[c]
        IN  /\ CallSound(r, item[r.item], origin[r.item], Protected)
            /\ r.at # "idle" => r.item \in Items
            /\ r.labels # None \/ r.op \in {"delete", "force"} =>
                  r.at # "idle" /\ r.item \in used

IInv == Shaped /\ StoredSound /\ CallsSound

(* The annotations of a claim cannot be applied: the agent refuses them,   *)
(* because of a label or of a compression for a NoCOW volume, all at once. *)
Conflict(v) ==
    Refused(item[v], [labels |-> VolumeLabelsOf(v), params |-> AnnotatedParams(v, NoParams)])

(* They are applied; nocow = false does nothing to a volume that has it.   *)
InEffect(v) ==
    LET want == VolumeLabelsOf(v)
        has == item[v].labels
        params == AnnotatedParams(v, item[v].params)
    IN  /\ want \subseteq has /\ KeysOf(has) \subseteq KeysOf(want) \cup Protected
        /\ item[v].params.comp = params.comp /\ (params.nocow => item[v].params.nocow)

(* A publish of v is answered: refused, or written.                        *)
Published(v) ==
    \E p \in Publishers :
        /\ call[p].item = v
        /\ \/ WriteUpdate(p)
           \/ CheckUpdate(p) /\ Refused(item[v], call[p])

(* "apply PVC annotation changes to agent" (publish.go:42): if a volume is *)
(* published again and again, its annotations are in effect after their    *)
(* last change or the agent refuses them as they are, with stale           *)
(* publishes, commands of users and restarts of the agent in between.  It  *)
(* refuses all of them when a compression is annotated for a NoCOW volume, *)
(* where configuration.md:53 says "Applied at create and on every attach". *)
AnnotationsApplied ==
    \A v \in Volumes :
        []<><<Published(v)>>_vars =>
            <>[](Exists(v) => Conflict(v) \/ InEffect(v))

(* A claim is provisioned, whatever other labels and invalid values are    *)
(* annotated: if its name fits into a label, the class has good            *)
(* parameters, the labels that the agent requires are annotated and it is  *)
(* a clone or does not ask for NoCOW with a compression.  (The annotations *)
(* shown in operations.md:75-77 do, such a claim stays pending.)           *)
ClaimProvisioned ==
    \A i \in Items :
        /\ origin[i] = "claim" /\ claim.name # LongName /\ claim.params \in Asked
        /\ <>[](\A k \in immutable \ {CreatedBy} :
                    Value(MergeUserLabels({}, ParseLabels(anno[i].labels)), k) # "")
        /\ i \in Volumes /\ ~claim.clone => <>[]Allowed(Wanted(i))
        => <>(i \in used)
=============================================================================
