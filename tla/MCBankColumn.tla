---------------------------- MODULE MCBankColumn ----------------------------
(* Two tiles of a group, and a far tile that comes in through the first.   *)
EXTENDS BankColumn

Load(c) == [op |-> "READ_REQ", from |-> <<c>>, to |-> <<>>]
Store(c) == [op |-> "DATA_WRITE", from |-> <<>>, to |-> <<c>>]
Stream(src, dst) == [op |-> "PREFETCH", from |-> src, to |-> dst]
Reduce(src, dst) == [op |-> "REDUCE", from |-> src, to |-> <<dst>>]
Wait(i) == [op |-> "AWAIT", of |-> i]

MCLink == [t \in Requesters |-> IF t = "far" THEN "t0" ELSE t]

Run(p0, p1, pf_far) ==
  [t \in Requesters |-> CASE t = "t0" -> p0 [] t = "t1" -> p1 [] t = "far" -> pf_far]

\* A block is stored and streamed into the bank, and read after the token,
\* beside a store and a load of another tile.
StreamStored ==
  Run(<<Store("d1"), Stream(<<"d1", "d2">>, <<"s1", "s2">>), Wait(2), Load("s1")>>,
      <<Store("d2"), Load("d2")>>,
      <<>>)

\* A tile reduces what it and a far tile store, and reads the result.
ReduceStored ==
  Run(<<Load("d1")>>,
      <<Store("s3"), Reduce(<<"s3", "s4">>, "s4"), Wait(2), Load("s4")>>,
      <<Store("s4"), Reduce(<<"s4">>, "s2")>>)

\* Streams back to back: their tokens, the answers and the chunks compete.
Streams ==
  Run(<<Stream(<<"d1">>, <<"s1">>), Stream(<<"d2", "d1">>, <<"s2", "s3">>), Load("d1")>>,
      <<Store("d1"), Load("s1")>>,
      <<>>)

MCPrograms == {StreamStored, ReduceStored, Streams}
=============================================================================
