------------------------------ MODULE MCMqueue ------------------------------
(***************************************************************************)
(* Two threads and two elements. Names: a good one of the longest length, one *)
(* that is too long and one without the slash. A queue holds one message.    *)
(***************************************************************************)
EXTENDS Mqueue, TLC

MCNames == {[slash |-> TRUE, len |-> NAME_MAX + 1, id |-> 1],
            [slash |-> TRUE, len |-> NAME_MAX + 2, id |-> 2],
            [slash |-> FALSE, len |-> 1, id |-> 3]}
MCDefaultAttr == [maxmsg |-> 1, msgsize |-> 2]
MCAttrs == {[maxmsg |-> 1, msgsize |-> 1], [maxmsg |-> 0, msgsize |-> 1]}
MCOFlags == {{}, {"O_CREAT"}, {"O_CREAT", "O_EXCL"}, {"O_CREAT", "O_NONBLOCK"}}
MCLengths == {1, 2, 3}

(* Ticks of 3 ns, 2 in a second. From 0:4 the deadlines are past; a part of a *)
(* tick later, over the end of a second; invalid; beyond the largest tick.    *)
Time(s, n) == [tv_sec |-> s, tv_nsec |-> n]
MCClock == {Time(0, 4)}
MCDeadlines == {Time(0, 2), Time(0, 5), Time(1, 2), Time(1, 6), Time(5, 0)}
MCForever == -1

Symmetry == Permutations(Threads) \cup Permutations(Addrs)
=============================================================================
