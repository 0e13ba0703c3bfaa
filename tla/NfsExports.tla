----------------------------- MODULE NfsExports -----------------------------
(***************************************************************************)
(* NFS exports of the agent: the reference list in a volume's metadata     *)
(* (agent/storage/export.go), the kernel's export table behind exportfs    *)
(* (agent/storage/nfs) and the reconciler that repairs the table from the  *)
(* metadata (agent/storage/reconciler.go).                                 *)
(*                                                                         *)
(* A request first updates the metadata, in one Store.Update, and then,    *)
(* outside any lock, the kernel.  Store.Update is one step here: it holds  *)
(* the entry's lock, and how it races with deletion is VolumeStore's       *)
(* subject.  The list is a sequence because DeleteVolumeExport filters it  *)
(* in place, in the array the cached metadata still points to.             *)
(***************************************************************************)
EXTENDS Naturals, Sequences, FiniteSets, SequencesExt

CONSTANTS Volumes, IPs,
          LabelsOf,     \* IP -> the labels its requests carry: sets of key-value pairs
          Clients,      \* goroutines that serve export requests
          LongPaths,    \* volumes whose path exportfs prints on a line of its own
          V6,           \* the IPv6 addresses among the IPs
          Failures,     \* what may fail: "write", "export", "unexport"
          MaxRestarts   \* bound: reboots and agent restarts

Refs == {r \in [ip : IPs, labels : UNION {LabelsOf[ip] : ip \in IPs}] :
            r.labels \in LabelsOf[r.ip]}

VARIABLES exists,       \* volume -> its directory and its cache entry exist
          cached,       \* volume -> references, as the cache sees them
          stored,       \* volume -> references in the metadata file
          kernel,       \* the kernel's table: pairs <<volume, ip>>
          pc, req,      \* the requests in progress
          rpc,          \* where the reconciler is in its round
          actual,       \* the table as it listed it
          left,         \* volumes it has still to visit
          rvol, rips,   \* the volume it visits, the IPs it has still to export
          restarts,
          clean         \* so far nothing failed, was lost or overlapped

store == <<exists, cached, stored>>
reconciler == <<rpc, actual, left, rvol, rips>>
vars == <<store, kernel, pc, req, reconciler, restarts, clean>>

TypeOK ==
    /\ exists \in [Volumes -> BOOLEAN]
    /\ cached \in [Volumes -> Seq(Refs)] /\ stored \in [Volumes -> Seq(Refs)]
    /\ kernel \subseteq Volumes \X IPs
    /\ pc \in [Clients -> {"idle", "export", "unexport"}]
    /\ req \in [Clients -> Volumes \X IPs]
    /\ rpc \in {"wait", "orphans", "remove", "restore", "export"}
    /\ actual \subseteq Volumes \X IPs
    /\ left \subseteq Volumes /\ rvol \in Volumes /\ rips \subseteq IPs
    /\ restarts \in 0..MaxRestarts /\ clean \in BOOLEAN

NoReq == CHOOSE r \in Volumes \X IPs : TRUE

Init ==
    /\ exists = [v \in Volumes |-> TRUE]
    /\ cached = [v \in Volumes |-> <<>>]
    /\ stored = [v \in Volumes |-> <<>>]
    /\ kernel = {}
    /\ pc = [c \in Clients |-> "idle"]
    /\ req = [c \in Clients |-> NoReq]
    /\ rpc = "wait" /\ actual = {} /\ left = {} /\ rvol = NoReq[1] /\ rips = {}
    /\ restarts = 0 /\ clean = TRUE

MayFail(what) == what \in Failures /\ clean' = FALSE
Fine == UNCHANGED clean
Quiet == \A c \in Clients : pc[c] = "idle"

(* A request or a round of the reconciler that starts beside another one.  *)
Overlap(alone) == clean' = (clean /\ alone)

Goto(c, l, v, ip) == /\ pc' = [pc EXCEPT ![c] = l]
                     /\ req' = [req EXCEPT ![c] = IF l = "idle" THEN NoReq ELSE <<v, ip>>]
-----------------------------------------------------------------------------
(* exportsForIP, uniqueExportIPs, hasExport and labelsContain.             *)
ExportsForIP(refs, ip) == Len(SelectSeq(refs, LAMBDA r : r.ip = ip))
UniqueExportIPs(refs) == {refs[i].ip : i \in DOMAIN refs}
HasExport(refs, ip, labels) == Contains(refs, [ip |-> ip, labels |-> labels])
LabelsContain(labels, match) == match \subseteq labels

(* A reference makes a kernel export when it is the first of its IP.       *)
FirstRef(refs, ip) == ExportsForIP(refs, ip) = 0

(* CreateVolumeExport, the metadata: a reference that is there already     *)
(* rewrites the list as it is.  A volume that is not there ends the        *)
(* request, and so does a failed write; neither changes anything.          *)
AddExport(c, v, ip, labels) ==
    /\ pc[c] = "idle" /\ exists[v] /\ Overlap(Quiet /\ rpc = "wait")
    /\ \/ /\ HasExport(cached[v], ip, labels)
          /\ stored' = [stored EXCEPT ![v] = cached[v]]
          /\ UNCHANGED <<cached, pc, req>>
       \/ /\ ~HasExport(cached[v], ip, labels)
          /\ LET refs == Append(cached[v], [ip |-> ip, labels |-> labels]) IN
               /\ cached' = [cached EXCEPT ![v] = refs]
               /\ stored' = [stored EXCEPT ![v] = refs]
               /\ Goto(c, IF FirstRef(cached[v], ip) THEN "export" ELSE "idle", v, ip)
    /\ UNCHANGED <<exists, kernel, reconciler, restarts>>

(* The references a DeleteVolumeExport keeps.  No labels match every one.  *)
Keep(refs, ip, match) ==
    SelectSeq(refs, LAMBDA r : r.ip # ip \/ ~LabelsContain(r.labels, match))

(* filtered := meta.Exports[:0] and its appends overwrite the array from   *)
(* its start; its old length is what the cached metadata goes on showing.  *)
Overwrite(refs, kept) == kept \o SubSeq(refs, Len(kept) + 1, Len(refs))

(* Mutant: an IP is unexported although other references need it.          *)
LastRefIgnoresOthers(refs, kept, ip) == Len(kept) < Len(refs)

(* lastRef: something was removed and nothing is left for the IP.          *)
LastRef(refs, kept, ip) == Len(kept) < Len(refs) /\ ExportsForIP(kept, ip) = 0

(* Bound: a second write fails only after the list is in order again, or   *)
(* failures could make it grow for ever.                                   *)
WriteMayFail(v) == MayFail("write") /\ IsInjective(cached[v])

(* DeleteVolumeExport, the metadata.                                       *)
DropExport(c, v, ip, match) ==
    LET refs == cached[v]
        kept == Keep(refs, ip, match)
    IN
    /\ pc[c] = "idle" /\ exists[v]
    /\ \/ /\ Overlap(Quiet /\ rpc = "wait")
          /\ cached' = [cached EXCEPT ![v] = kept]
          /\ stored' = [stored EXCEPT ![v] = kept]
          /\ Goto(c, IF LastRef(refs, kept, ip) THEN "unexport" ELSE "idle", v, ip)
       \/ /\ WriteMayFail(v)
          /\ cached' = [cached EXCEPT ![v] = Overwrite(refs, kept)]
          /\ UNCHANGED <<stored, pc, req>>
    /\ UNCHANGED <<exists, kernel, reconciler, restarts>>

(* exporter.Export and exporter.Unexport of a request; the request returns *)
(* whether they fail or not.                                               *)
DoExport(c) ==
    /\ pc[c] = "export"
    /\ \/ Fine /\ kernel' = kernel \cup {req[c]}
       \/ MayFail("export") /\ UNCHANGED kernel
    /\ Goto(c, "idle", req[c][1], req[c][2])
    /\ UNCHANGED <<store, reconciler, restarts>>

DoUnexport(c) ==
    /\ pc[c] = "unexport"
    /\ \/ Fine /\ kernel' = kernel \ {req[c]}
       \/ MayFail("unexport") /\ UNCHANGED kernel
    /\ Goto(c, "idle", req[c][1], req[c][2])
    /\ UNCHANGED <<store, reconciler, restarts>>

(* DeleteVolume, which refuses a volume with references, and CreateVolume, *)
(* as far as exports see them.                                             *)
DeleteVolume(v) ==
    /\ exists[v] /\ cached[v] = <<>> /\ Overlap(Quiet /\ rpc = "wait")
    /\ exists' = [exists EXCEPT ![v] = FALSE]
    /\ UNCHANGED <<cached, stored, kernel, pc, req, reconciler, restarts>>

CreateVolume(v) ==
    /\ ~exists[v] /\ Overlap(Quiet /\ rpc = "wait")
    /\ exists' = [exists EXCEPT ![v] = TRUE]
    /\ cached' = [cached EXCEPT ![v] = <<>>]
    /\ stored' = [stored EXCEPT ![v] = <<>>]
    /\ UNCHANGED <<kernel, pc, req, reconciler, restarts>>
-----------------------------------------------------------------------------
(* exportfsClient puts an IPv6 address in brackets, as exportfs does in    *)
(* its listing, and unwrapBrackets takes them off.                         *)
ExportfsClient(ip) == IF ip \in V6 THEN <<"[", ip, "]">> ELSE <<ip>>
UnwrapBrackets(client) == IF client[1] = "[" THEN client[2] ELSE client[1]

(* What exportfs -v prints of an export: path and client on one line, or a *)
(* long path and below it, indented, the client.  A line is its fields.    *)
Printed(e) ==
    LET client == ExportfsClient(e[2])
    IN  IF e[1] \in LongPaths
          THEN <<[indented |-> FALSE, fields |-> <<e[1]>>],
                 [indented |-> TRUE, fields |-> <<client>>]>>
          ELSE <<[indented |-> FALSE, fields |-> <<e[1], client>>]>>

(* Mutant: a client on a line of its own is not an export.                 *)
ParseShortLines(acc, line) ==
    IF ~line.indented /\ Len(line.fields) >= 2
      THEN [acc EXCEPT !.exports = @ \cup {<<line.fields[1], UnwrapBrackets(line.fields[2])>>}]
      ELSE acc

(* parseExports, one line: the path waits for the client of the next line. *)
ParseLine(acc, line) ==
    LET fields == line.fields
    IN  CASE ~line.indented /\ Len(fields) >= 2 ->
               [exports |-> acc.exports \cup {<<fields[1], UnwrapBrackets(fields[2])>>},
                path |-> <<>>]
          [] ~line.indented /\ Len(fields) < 2 -> [acc EXCEPT !.path = fields]
          [] line.indented /\ acc.path # <<>> ->
               [exports |-> acc.exports \cup {<<acc.path[1], UnwrapBrackets(fields[1])>>},
                path |-> <<>>]
          [] OTHER -> acc

ParseExports(lines) == FoldLeft(ParseLine, [exports |-> {}, path |-> <<>>], lines).exports

(* What ListExports makes of each table, and of the table as it is.        *)
Listings ==
    {[table |-> t,
      exports |-> ParseExports(FlattenSeq([i \in 1..Cardinality(t) |-> Printed(SetToSeq(t)[i])]))] :
        t \in SUBSET (Volumes \X IPs)}
Listed == (CHOOSE l \in Listings : l.table = kernel).exports

(* exportedClients: for whom a path is exported.                           *)
ExportedClients(v) == {e \in Listed : e[1] = v}

(* reconcileExports.  ListExports: a listing that fails ends the round,    *)
(* which changes nothing.                                                  *)
ListExports ==
    /\ rpc = "wait" /\ Overlap(Quiet)
    /\ actual' = Listed
    /\ left' = {e[1] : e \in Listed}
    /\ rpc' = "orphans"
    /\ UNCHANGED <<store, kernel, pc, req, rvol, rips, restarts>>

(* os.Stat of a listed path.                                               *)
CheckOrphan(v) ==
    /\ rpc = "orphans" /\ v \in left /\ Fine
    /\ left' = left \ {v}
    /\ IF exists[v] THEN UNCHANGED <<rpc, rvol>> ELSE rpc' = "remove" /\ rvol' = v
    /\ UNCHANGED <<store, kernel, pc, req, actual, rips, restarts>>

(* A path that was not found is unexported for every client the table has  *)
(* by now, one after the other, each of which may fail.                    *)
RemoveOrphan(v) ==
    /\ rpc = "remove" /\ rvol = v
    /\ rpc' = "orphans"
    /\ \/ Fine /\ kernel' = kernel \ ExportedClients(v)
       \/ MayFail("unexport") /\ \E gone \in SUBSET ExportedClients(v) :
                                     kernel' = kernel \ gone
    /\ UNCHANGED <<store, pc, req, actual, left, rvol, rips, restarts>>

StartRestore ==
    /\ rpc = "orphans" /\ left = {} /\ Fine
    /\ rpc' = "restore"
    /\ left' = Volumes
    /\ UNCHANGED <<store, kernel, pc, req, actual, rvol, rips, restarts>>

(* Mutant: a volume with an export, any export, counts as restored.        *)
MissingUnlessListed(v) ==
    IF \E e \in actual : e[1] = v THEN {} ELSE UniqueExportIPs(cached[v])

(* The IPs of v's references that were not in the listing.                 *)
Missing(v) == UniqueExportIPs(cached[v]) \ {ip \in IPs : <<v, ip>> \in actual}

(* Range visits a volume that is in the cache then.                        *)
VisitVolume(v) ==
    /\ rpc = "restore" /\ v \in left /\ Fine
    /\ left' = left \ {v}
    /\ IF exists[v] /\ Missing(v) # {}
         THEN rpc' = "export" /\ rvol' = v /\ rips' = Missing(v)
         ELSE UNCHANGED <<rpc, rvol, rips>>
    /\ UNCHANGED <<store, kernel, pc, req, actual, restarts>>

AfterExport(ip) ==
    /\ rpc = "export" /\ ip \in rips
    /\ rips' = rips \ {ip}
    /\ rpc' = IF rips' = {} THEN "restore" ELSE "export"
    /\ UNCHANGED <<store, pc, req, actual, left, rvol, restarts>>

ReExport(v, ip) == rvol = v /\ AfterExport(ip) /\ Fine /\ kernel' = kernel \cup {<<v, ip>>}
ReExportFails(ip) == MayFail("export") /\ AfterExport(ip) /\ UNCHANGED kernel

EndRound ==
    /\ rpc = "restore" /\ left = {} /\ Fine
    /\ rpc' = "wait"
    /\ actual' = {}
    /\ UNCHANGED <<store, kernel, pc, req, left, rvol, rips, restarts>>
-----------------------------------------------------------------------------
(* The server reboots, or nfsd restarts: the table is empty.               *)
TableLost ==
    /\ restarts < MaxRestarts
    /\ restarts' = restarts + 1 /\ clean' = FALSE
    /\ kernel' = {}
    /\ UNCHANGED <<store, pc, req, reconciler>>

(* The agent restarts: requests and the round in progress are gone, and    *)
(* the cache is loaded from the files; the kernel's table stays.           *)
AgentRestart ==
    /\ restarts < MaxRestarts
    /\ restarts' = restarts + 1 /\ clean' = FALSE
    /\ cached' = stored
    /\ pc' = [c \in Clients |-> "idle"]
    /\ req' = [c \in Clients |-> NoReq]
    /\ rpc' = "wait" /\ actual' = {} /\ left' = {} /\ rips' = {}
    /\ UNCHANGED <<exists, stored, kernel, rvol>>

Request(c) ==
    \E v \in Volumes, ip \in IPs :
        \/ \E labels \in LabelsOf[ip] : AddExport(c, v, ip, labels)
        \/ \E match \in LabelsOf[ip] \cup {{}} : DropExport(c, v, ip, match)

Next ==
    \/ \E c \in Clients : Request(c) \/ DoExport(c) \/ DoUnexport(c)
    \/ \E v \in Volumes : DeleteVolume(v) \/ CreateVolume(v)
    \/ ListExports \/ StartRestore \/ EndRound
    \/ \E v \in Volumes : \/ CheckOrphan(v) \/ RemoveOrphan(v) \/ VisitVolume(v)
                         \/ \E ip \in IPs : ReExport(v, ip)
    \/ \E ip \in IPs : ReExportFails(ip)
    \/ TableLost \/ AgentRestart

Spec == Init /\ [][Next]_vars

(* The ticker keeps the reconciler going and requests run to their end.    *)
(* exportfs may fail, but not every time it is asked for the same export.  *)
OrphanGone(v) == RemoveOrphan(v) /\ \A e \in kernel' : e[1] # v
FairSpec ==
    /\ Spec
    /\ WF_vars(ListExports) /\ WF_vars(StartRestore) /\ WF_vars(EndRound)
    /\ \A v \in Volumes : /\ WF_vars(CheckOrphan(v)) /\ WF_vars(RemoveOrphan(v))
                          /\ SF_vars(OrphanGone(v))
                          /\ WF_vars(VisitVolume(v))
                          /\ \A ip \in IPs : SF_vars(ReExport(v, ip))
    /\ \A ip \in IPs : WF_vars((\E v \in Volumes : ReExport(v, ip)) \/ ReExportFails(ip))
    /\ \A c \in Clients : WF_vars(DoExport(c) \/ DoUnexport(c))
-----------------------------------------------------------------------------
Referenced(v, ip) == exists[v] /\ ip \in UniqueExportIPs(cached[v])

(* The reference count is right, with several references of one IP and a   *)
(* delete that matches some of them: as long as no request or round ran    *)
(* beside another, no exportfs failed and no table was lost, no reference  *)
(* is there twice and the kernel holds exactly the IPs with a reference    *)
(* whenever nothing is under way.                                          *)
QuietInSync ==
    clean /\ Quiet =>
        \A v \in Volumes :
            /\ IsInjective(cached[v])
            /\ \A ip \in IPs : <<v, ip>> \in kernel <=> Referenced(v, ip)

(* "if export fails, reconciler will re-export": a reference without a     *)
(* kernel export gets it back, after failures, lost tables, late unexports *)
(* and agent restarts, unless it is given up.                              *)
MissingExportRestored ==
    \A v \in Volumes, ip \in IPs :
        Referenced(v, ip) /\ <<v, ip>> \notin kernel
            ~> <<v, ip>> \in kernel \/ ~Referenced(v, ip)

(* "Removes orphaned exports (path deleted)": exports of a volume that is  *)
(* gone leave the table, unless the volume is created again.               *)
OrphanRemoved ==
    \A v \in Volumes, ip \in IPs :
        ~exists[v] /\ <<v, ip>> \in kernel ~> <<v, ip>> \notin kernel \/ exists[v]
=============================================================================
