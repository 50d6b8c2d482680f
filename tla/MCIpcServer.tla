---------------------------- MODULE MCIpcServer ----------------------------
(* Constants of the IPC server runs. *)
EXTENDS IpcServer

\* One peer that sends valid and malformed frames and subscribes with the
\* valid ones, one that only connects.
OneTalks == <<6, 0>>
Mixed == <<{"subscribe", "malformed"}, {}>>

\* Two peers that compete for the budgets of a poll.
BothTalk == <<4, 1>>
Competing == <<{"request"}, {"malformed"}>>
=============================================================================
