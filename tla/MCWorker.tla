------------------------------ MODULE MCWorker ------------------------------
(* Four tasks, one of each kind that takes a way of its own through the    *)
(* worker: t1 is routed, t2 goes to the agent without an image, t3 goes to *)
(* the agent with an image (which raises), t4 is not JSON.                 *)
EXTENDS Worker

CONSTANTS t1, t2, t3, t4
=============================================================================
