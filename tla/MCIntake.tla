-------------------------------- MODULE MCIntake --------------------------------
(* What comes in.  To the three questions of MCSourceIngestion two about    *)
(* telemetry are added, on one instance each: by which key an agent is      *)
(* known (TargetRegistry), and which run its spans belong to (SpanIngest).  *)
(* They share no state, so a behaviour takes one of them (lane) and the     *)
(* others rest where they begin.                                            *)
EXTENDS MCSourceIngestion, SpanIngest, TargetRegistry

CONSTANTS
    FirstRun, Session   \* of IngestRequests

INSTANCE IngestRequests

sources == <<vars, extractionVars, versionVars>>

(* SpanIngest begins with a boundary that reads external ids; one change of *)
(* it reaches the other boundary.                                           *)
IntakeInit ==
    /\ MCInit
    /\ SpansInit /\ config.reads
    /\ RegistryInit

IntakeNext ==
    \/ MCNext /\ UNCHANGED <<spansVars, registryVars>>
    \/ /\ lane = "ingest"
       /\ SpansNext
       /\ UNCHANGED <<lane, sources, registryVars>>
    \/ lane = "keys" /\ RegistryNext /\ UNCHANGED <<lane, sources, spansVars>>

IntakeSpec == IntakeInit /\ [][IntakeNext]_<<lane, sources, spansVars, registryVars>>

IntakeSymmetry == WorkerSymmetry \cup Permutations(Exporters)

(* Type invariant of the ingest and of the registry. *)
IntakeTypeOK == IngestTypeOK /\ RegistryTypeOK
=================================================================================
