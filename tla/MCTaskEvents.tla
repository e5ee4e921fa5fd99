----------------------------- MODULE MCTaskEvents -----------------------------
(* Two tasks of a session and a stream, which may be a resumed one.           *)
EXTENDS TaskEvents

CONSTANTS t1, t2, s1

MCLaunched == {t1, t2}
MCStreams == {s1}
=============================================================================
