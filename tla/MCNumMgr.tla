------------------------------ MODULE MCNumMgr ------------------------------
(* Instances of NumMgr for TLC; test_num_mgr.c uses three numbers too. *)
EXTENDS NumMgr

OneCaller == {"app"}
=============================================================================
