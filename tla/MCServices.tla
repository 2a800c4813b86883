----------------------------- MODULE MCServices -----------------------------
(***************************************************************************)
(* Services of adbd and their clients, for TLC: file sync, shells and      *)
(* JDWP.  They share no variable, so every behaviour of several of them is *)
(* a shuffle of behaviours of each; `part' picks the one that moves, and   *)
(* the others rest in initial states.                                      *)
(***************************************************************************)
EXTENDS MCFileSync, ShellService, Jdwp

VARIABLE part  \* the component that moves

servicesVars == <<part, fileSyncVars, shVars, jdVars>>

ServicesTypeOK == FileSyncTypeOK /\ ShellServiceTypeOK /\ JdwpTypeOK

\* The devices a push meets.  The directory of four files is synced to one that
\* has all but the last version of the large file (every lstat may fail); that
\* of two, when they are checked, to one that has any of them; an unchecked push
\* finds nothing, or an outdated file.
FewDevices ==
  CASE srcs = <<"many">> -> cmd = "sync" /\ old["large"] # <<>> /\ {f \in Files : remote[f] = Absent} = {"large"}
    [] srcs = <<"dir">> /\ check -> old["large"] = <<>> /\ {"large", "file"} \subseteq {f \in Files : remote[f] = Absent}
    [] OTHER -> ~check

ServicesInit ==
  /\ part \in {"sync", "shell", "jdwp"}
  /\ FileSyncInit /\ ShellServiceInit /\ JdwpInit
  /\ part = "sync" \/ (cmd = "ls" /\ srcs = <<"dir">>)
  /\ FewDevices
  /\ part = "shell" \/ shMode = "raw"

ServicesNext ==
  /\ \/ part = "sync" /\ FileSyncNext /\ UNCHANGED <<shVars, jdVars>>
     \/ part = "shell" /\ ShellServiceNext /\ UNCHANGED <<fileSyncVars, jdVars>>
     \/ part = "jdwp" /\ JdwpNext /\ UNCHANGED <<fileSyncVars, shVars>>
  /\ UNCHANGED part

\* The fairness of each component, while it is the one that moves.
ServicesFairness ==
  /\ WF_fileSyncVars(part = "sync" /\ Client) /\ WF_fileSyncVars(part = "sync" /\ Service)
  /\ WF_shVars(part = "shell" /\ ShThread) /\ WF_shVars(part = "shell" /\ (ShDumps \/ ShReturns))
  /\ WF_jdVars(part = "jdwp" /\ JdMain)

ServicesSpec == ServicesInit /\ [][ServicesNext]_servicesVars /\ ServicesFairness

\* TransferEnds, of file sync (file_sync_client.cpp, file_sync_service.cpp),
\* which does not end while it rests.
SyncPartEnds == part = "sync" => TransferEnds
=============================================================================
