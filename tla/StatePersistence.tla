-------------------------- MODULE StatePersistence --------------------------
(***************************************************************************)
(* persistCurrent of plugin.go.  Whoever changed the cache saves it after  *)
(* releasing the mutex: the savers take persistMu one after another, take  *)
(* the snapshot only then, and replace the file by a rename.               *)
(***************************************************************************)
EXTENDS RuntimeState

CONSTANT SavesFail      \* whether the file system may refuse a save

ASSUME SavesAssumption == SavesFail \in BOOLEAN

saveFrame == <<now, lifecycleVars, cacheVars, requestVars, probing, poolCursor,
               lastProbe, blockVars, workerVars, queueVars, operatorVars>>

\* persistCurrent returns to its caller; ensureProbe records a failure
\* without looking at its generation again.
SaveReturns(c, failed) ==
    /\ saving' = [saving EXCEPT ![c] = NoPath]
    /\ IF probe[c].pc = "save"
       THEN /\ failed => MutexFree
            /\ probe' = [probe EXCEPT ![c] = NoProbe]
            /\ probeResults' = IF failed
                               THEN [probeResults EXCEPT ![probe[c].key] = "persist_failed"]
                               ELSE probeResults
       ELSE UNCHANGED <<probe, probeResults>>

\* Mutant: no persistMu, so two savers may write in either order.
AnySaver == TRUE
NoSaver == savers = {}

\* The locked part of persistCurrent: a file the configuration has left is
\* not written any more.
SaveSnapshot(c) ==
    /\ saving[c] # NoPath
    /\ c \notin savers
    /\ NoSaver
    /\ MutexFree
    /\ IF saving[c] # config.stateFile
       THEN /\ SaveReturns(c, FALSE)
            /\ UNCHANGED <<savers, snapshot>>
       ELSE /\ savers' = savers \cup {c}
            /\ snapshot' = [snapshot EXCEPT ![c] = current]
            /\ UNCHANGED <<saving, probe, probeResults>>
    /\ UNCHANGED <<saveFrame, disk, saveFailed>>

\* persistStates: the file is the snapshot, or, on any error, what it was.
SaveWrite(c, failed) ==
    /\ c \in savers
    /\ failed => SavesFail
    /\ savers' = savers \ {c}
    /\ snapshot' = [snapshot EXCEPT ![c] = EmptyCache]
    /\ saveFailed' = failed
    /\ disk' = IF failed THEN disk ELSE [disk EXCEPT ![saving[c]] = snapshot[c]]
    /\ SaveReturns(c, failed)
    /\ UNCHANGED saveFrame

SaveStep(c) == SaveSnapshot(c) \/ \E failed \in BOOLEAN : SaveWrite(c, failed)

=============================================================================
