------------------------------ MODULE Streams -------------------------------
(***************************************************************************)
(* The reference for the continuity checker: what a reader with the whole  *)
(* packet stream of a PID at hand would count, written without the state   *)
(* that m2tlib/drop_count.c keeps from packet to packet.                   *)
(***************************************************************************)
EXTENDS TSHead, Subsequences

(* The counter of a payload packet after one with counter cc.              *)
NextCounter(cc) == (cc + 1) % 16

(* The positions just before i that hold the same packet as position i.    *)
Copies(s, i) == {j \in 1 .. (i - 1) : \A k \in j .. i : s[k] = s[i]}

(* Packets are missing before position i of stream s.                      *)
Gap(s, i) ==
  /\ i > 1
  /\ Discontinuity(s[i]) = 0
  /\ s[i].pid # NULL_PID
  /\ \/ ~HasPayload(s[i]) /\ s[i].cc # s[i - 1].cc
     \/ /\ HasPayload(s[i])
        /\ \/ s[i].cc \notin {s[i - 1].cc, NextCounter(s[i - 1].cc)}
           \/ s[i].cc = s[i - 1].cc /\ s[i] # s[i - 1]
           \/ Copies(s, i) # {} /\ Cardinality(Copies(s, i)) % 2 = 0

Gaps(s)        == {i \in 1 .. Len(s) : Gap(s, i)}
Errors(s)      == {i \in 1 .. Len(s) : s[i].tei = 1}
Scrambled(s)   == {i \in 1 .. Len(s) : s[i].tsc # 0}

(* The packets of PID p among those of a file.                             *)
Stream(packets, p) ==
  Subsequence(packets,
              {i \in DOMAIN packets : packets[i].sync /\ packets[i].pid = p})
=============================================================================
