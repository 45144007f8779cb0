---------------------------- MODULE MCIPCChannel -----------------------------
(* One or two threads of a client that registers one process.               *)
EXTENDS IPCChannel

CONSTANTS pid, another, main, other

Ask(cmd, p, v) == [cmd |-> cmd, pid |-> p, volume |-> v,
                   muted |-> cmd = "SetMute"]

\* Below and above every volume.
WildFloats == {-5, 500}

PingRequests == {Ask("Ping", pid, 0)}
SetRequests  == PingRequests \union {Ask("SetVolume", pid, 80)}

AllRequests ==
  SetRequests \union
    {Ask(cmd, pid, 50) :
       cmd \in {"Register", "Unregister", "GetVolume", "SetMute", "ListClients"}}

VolumeRequests == PingRequests \union {Ask("Register", pid, 50), Ask("GetVolume", pid, 0)}

ListRequests ==
  {Ask("Register", pid, 50), Ask("Register", another, 50), Ask("ListClients", pid, 0)}
=============================================================================
