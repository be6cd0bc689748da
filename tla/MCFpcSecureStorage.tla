-------------------------- MODULE MCFpcSecureStorage --------------------------
(* Databases for the instance: none, one and two fingerprints, templates
   whose bytes look like entry flags, sizes and the first half of a marker. *)
EXTENDS FpcSecureStorage

Entry(a, s, t) == [valid |-> 1, fid |-> Uint(a, U256), suid |-> s, tpl |-> t]

Set(k, l) == <<[key |-> k, setid |-> Uint(5, U256), stateid |-> Uint(6, U256), list |-> l]>>

MCDbs ==
    {[id |-> 1, sets |-> <<>>],
     [id |-> 2, sets |-> Set(0, <<Entry(3, 9, <<0, 1, 0>>), NoEntry>>)],
     [id |-> 3, sets |-> Set(1, <<NoEntry, Entry(4, 9, <<0, 0, 0, 0, 177>>)>>)],
     [id |-> 4, sets |-> Set(0, <<Entry(3, 9, <<0, 1, 0>>), Entry(4, 8, <<0, 2>>)>>)]}
=============================================================================
