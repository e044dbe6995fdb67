----------------------------- MODULE MCPrograms -----------------------------
(* All the programs together.                                              *)
EXTENDS Kernel, PipePrograms, ProcessPrograms, SignalPrograms, ThreadPrograms,
        IpcPrograms, SocketPrograms, FilePrograms
MCTable ==
    PipeTable @@ ProcessTable @@ SignalTable @@ ThreadTable @@ IpcTable @@ SocketTable @@ FileTable
MCPromise ==
    PipePromise @@ ProcessPromise @@ SignalPromise @@ ThreadPromise @@ IpcPromise
    @@ SocketPromise @@ FilePromise
MCKilling == ProcessKilling @@ SignalKilling @@ SignalTooEarly @@ ThreadKilling @@ FileKilling
MCEndless == SignalEndless \cup ThreadEndless \cup IpcEndless \cup SocketEndless \cup FileEndless
MCReaping == ProcessReaping \cup IpcReaping
MCDeviating == PipeDeviating \cup SignalDeviating \cup ThreadDeviating \cup SocketDeviating \cup FileDeviating

(* The deviating programs alone. *)
DeviatingTable == Restrict(MCTable, MCDeviating)
DeviatingPromise == Restrict(MCPromise, MCDeviating)
DeviatingEndless == MCEndless \cap MCDeviating
NoSignals == None
=============================================================================
