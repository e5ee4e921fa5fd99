-------------------------- MODULE MCWsxConnection --------------------------
(* A browser whose page opens its channel on one socket and, once that is   *)
(* lost, on another; the first also carries a call that never returns and a *)
(* ping. *)
EXTENDS WsxConnection, TLC

CONSTANTS s1, s2, open1, open2, endless, ping

SentOn == (open1 :> s1) @@ (endless :> s1) @@ (ping :> s1) @@ (open2 :> s2)
Kinds == (open1 :> "open") @@ (endless :> "rpc") @@ (ping :> "ping") @@ (open2 :> "open")
OnePage == [m \in {open1, open2, endless, ping} |-> CHOOSE p \in Pages : TRUE]
=============================================================================
