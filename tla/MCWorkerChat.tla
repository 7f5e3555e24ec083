---------------------------- MODULE MCWorkerChat ----------------------------
(***************************************************************************)
(* One person: the bot keeps one user_data and one state of each dialogue  *)
(* per chat, so persons do not meet here.                                  *)
(***************************************************************************)
EXTENDS WorkerChat
=============================================================================
