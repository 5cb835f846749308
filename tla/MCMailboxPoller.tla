-------------------------- MODULE MCMailboxPoller --------------------------
(* Instances of MailboxPoller for TLC. *)
EXTENDS MailboxPoller, TLC

\* Message-IDs are interchangeable in the safety runs.
Interchangeable == Permutations(MessageId)
=============================================================================
