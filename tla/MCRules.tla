------------------------------ MODULE MCRules ------------------------------
(***************************************************************************)
(* The rules and the formats for TLC: what a target, a certificate, a      *)
(* script, a block, a record, an address or a number must satisfy.         *)
(* "target" grows a branch of the chain; every other part enumerates the   *)
(* inputs of one group of functions in "input", and the properties compare *)
(* each function with what it stands for on every one of them.             *)
(***************************************************************************)
EXTENDS PrimeTarget, Script, BlockRules, Codecs, LdbFormat, TimeData, NetAddr

CONSTANT Parts
VARIABLES part, input

rulevars == <<part, input, vars>>

-----------------------------------------------------------------------------
(* Scripts: the standard kinds, each also behind one and two script hashes *)
(* ("true" is not standard), key stores with any of three keys, and a      *)
(* transaction with the transactions that differ from it in one place.     *)
K(i) == PubKey(i)
TrueScript == <<<<"num", 1>>>>
Plain == {PayToPubKey(K(1)), PayToKeyID(KeyID(K(1))), SetMultisig(1, <<K(1), K(2)>>),
          SetMultisig(2, <<K(1), K(2)>>), SetMultisig(2, <<K(1), K(2), K(3)>>),
          SetMultisig(2, <<K(1), K(1)>>), SetMultisig(3, <<K(1), K(2)>>), TrueScript}
Hashed == {PayToScriptID(ScriptID(s)) : s \in Plain}
ScriptPubKeys == Plain \cup Hashed \cup {PayToScriptID(ScriptID(s)) : s \in Hashed}
Standard == ScriptPubKeys \ {TrueScript, PayToScriptID(ScriptID(TrueScript))}
Stores == [keys : {{K(i) : i \in S} : S \in SUBSET {1, 2, 3}}, scripts : {{}, Plain \cup Hashed}]
TxIn(p, q) == [prevout |-> p, seq |-> q]
Tx0 == [vin |-> <<TxIn(1, 1), TxIn(2, 1)>>, vout |-> <<5, 6>>]
OtherTxs ==
    {Tx0, [Tx0 EXCEPT !.vin[1].seq = 0], [Tx0 EXCEPT !.vin[2].seq = 0],
     [Tx0 EXCEPT !.vin[1].prevout = 9], [Tx0 EXCEPT !.vin = Append(@, TxIn(3, 1))],
     [Tx0 EXCEPT !.vout[1] = 7], [Tx0 EXCEPT !.vout[2] = 7], [Tx0 EXCEPT !.vout = Append(@, 1)],
     [Tx0 EXCEPT !.vin = <<TxIn(2, 1)>>]}
HashTypes == {1, 2, 3, 129, 130, 131}

\* Scripts of a few operations, and a redeem script that checks signatures.
Redeem == <<OP_0, <<"num", 1>>, Push(K(1)), <<"num", 1>>, <<"CHECKMULTISIG">>>>
Context == [tx |-> Tx0, nIn |-> 1, type |-> 0, strict |-> TRUE, p2sh |-> TRUE]
Ops == {OP_0, <<"num", 1>>, <<"num", 2>>, Push(<<"negzero">>), Push(K(1)),
        Push(Serialized(Redeem)), <<"IF">>, <<"NOTIF">>, <<"ELSE">>, <<"ENDIF">>, <<"VERIF">>,
        <<"CAT">>, <<"CHECKSIG">>, <<"CHECKMULTISIG">>, <<"2DUP">>, <<"TOALTSTACK">>, <<"ADD">>,
        <<"HASH160">>}

-----------------------------------------------------------------------------
(* Blocks and transactions                                                 *)
Vin(qs) == [i \in DOMAIN qs |-> [prevout |-> <<i, 0>>, nSequence |-> qs[i], scriptSize |-> 100,
                                 pushOnly |-> TRUE]]
Pays(values) == [i \in DOMAIN values |-> [nValue |-> values[i], size |-> 2, standard |-> TRUE]]
Transaction(vin, vout) ==
    [id |-> 1, nVersion |-> 1, vin |-> vin, vout |-> vout, nLockTime |-> 0, size |-> 4, sigops |-> 0]
Coinbase == Transaction(<<[prevout |-> NullOutpoint, nSequence |-> 3, scriptSize |-> 2,
                           pushOnly |-> TRUE]>>, Pays(<<40>>))
BlockOf(vtx, root, coinbase) ==
    [vtx |-> vtx, size |-> 8, nTime |-> 3, nVersion |-> 2, root |-> root, coinbase |-> coinbase]

\* The block whose transactions have the ids s, 1 being the coinbase.
WithIds(s) ==
    BlockOf([i \in DOMAIN s |-> IF s[i] = 1 THEN Coinbase
                                ELSE [Transaction(Vin(<<3>>), Pays(<<40>>)) EXCEPT !.id = s[i]]],
            MerkleRoot([i \in DOMAIN s |-> TxHash(s[i])]), <<>>)
Ids(n) == {s \in UNION {[1..k -> 1..3] : k \in 1..n} : s[1] = 1}
WithCoinbase(c) == BlockOf(<<Transaction(Vin(<<3>>), Pays(<<40>>))>>, ZeroHash, c)
Heights == {0, 1, 2, 15, 16, 17, 81, 82, 127, 128, 129, 255, 256, 257, 511, 512}
VersionTwo(n) == [i \in 1..n |-> 2]
Amounts == {-1, 0, 1, 13, 14, 15, 100000, 199999, 200000, 200001, 524287}

\* Two chains that part after block f.
Branch(n, f, name) == [i \in 1..n |-> IF i <= f THEN <<"main", i>> ELSE <<name, i>>]

-----------------------------------------------------------------------------
(* Records of the databases                                                *)
HashBytes == [i \in 1..HashLen |-> 200 + i]
KeyBytes(b) == [i \in 1..KeyLen |-> IF i = 1 THEN b ELSE 9]
FullKey(x, y) == <<2 * KeyLen + 1, 4>> \o x \o y \o <<172>>
Scripts ==
    <<<<118, 169, HashLen>> \o HashBytes \o <<136, 172>>, <<169, HashLen>> \o HashBytes \o <<135>>,
      <<KeyLen + 1, 2>> \o KeyBytes(5) \o <<172>>, <<KeyLen + 1, 3>> \o KeyBytes(4) \o <<172>>,
      FullKey(KeyBytes(4), CurveY(KeyBytes(4), 0)), FullKey(KeyBytes(4), CurveY(KeyBytes(4), 1)),
      FullKey(KeyBytes(5), CurveY(KeyBytes(4), 1)), FullKey(KeyBytes(4), KeyBytes(3)),
      <<>>, <<0>>, [i \in 1..121 |-> 1], [i \in 1..122 |-> 172], [i \in 1..130 |-> 5]>>
Values == <<0, 1, 9, 10, 100, 12300, 999, 1000000000, 2000000000, 200000001>>
Varints == {0, 1, 126, 127, 128, 129, 252, 253, 254, 255, 256, 16510, 16511, 16512, 65535, 65536,
            2113663, 2113664, 1000000, 1000000000, 90000000}
OutputOf(k) == [nValue |-> Values[(k % Len(Values)) + 1], script |-> Scripts[(k % Len(Scripts)) + 1]]
CoinsOf(av, k, m) ==
    [fCoinBase |-> m[1], nHeight |-> m[2], nVersion |-> m[3],
     vout |-> [i \in 1..19 |-> IF i - 1 \in av THEN OutputOf(k + i) ELSE Null]]
Undos == {[nHeight |-> (k % 3) * 63, fCoinBase |-> k % 3 > 0, nVersion |-> k % 3,
           txout |-> OutputOf(k)] : k \in 0..8}
BatchOps == {<<1, <<>>, <<3>>>>, <<0, <<1, 0>>>>, <<1, <<7, 7>>, <<>>>>}
Edits == {<<1, <<5>>>>, <<2, 100>>, <<9, 0>>, <<5, 1, <<1, 2>>>>, <<6, 2, 77>>,
          <<7, 0, 9, 127, <<>>, <<3>>>>}
Users == {<<0>>, <<0, 1>>, <<0, 3>>, <<2>>, <<3, 3>>}
Entry(k) == [key |-> k, value |-> 1 + ((Len(k) + Last(k) + k[1]) % 3)]
Entries == {Entry(Append(u, s)) : u \in Users, s \in {4, 5}}
Targets == {Append(u, s) : u \in Users \cup {<<1>>, <<0, 2>>, <<3>>, <<>>}, s \in {4, 5, 9}}

-----------------------------------------------------------------------------
(* Addresses and times                                                     *)
V4 == {<<a, b, 3, 4>> : a \in {0, 1, 10, 127, 169, 172, 192, 255}, b \in {0, 16, 168, 254, 255}}
V6 == {<<32, 1, 4, 112, b>> \o Zeros(11) : b \in {0, 16, 17}}
      \cup {Zeros(15) \o <<n>> : n \in {0, 1, 2}}
      \cup {<<32, 1, 13, 184>> \o Zeros(12), <<32, 1, 0, 17>> \o Zeros(12), <<252>> \o Zeros(15),
            <<254, 128>> \o Zeros(14), <<38, 7, 1, 2>> \o Zeros(12),
            Zeros(7) \o <<255, 255>> \o Zeros(7), pchIPv4 \o Zeros(4), pchRFC6052 \o Zeros(4),
            <<32, 2>> \o Zeros(14)}
Partners == {<<>>, Mapped(<<1, 1, 1, 1>>), <<38, 7, 1, 2>> \o Zeros(12)}
Offsets == {-4, -1, 5}

-----------------------------------------------------------------------------
Choose(p, S) == part = p /\ input = <<>> /\ \E x \in S : input' = x
Grow(p, S, n) == part = p /\ Len(input) < n /\ \E x \in S : input' = Append(input, x)

ChooseInput ==
    \/ Choose("sign", ScriptPubKeys \X Stores \X HashTypes \X {1, 2})
    \/ Choose("combine", {x \in Standard \X Stores \X Stores : x[2].scripts = x[3].scripts})
    \/ Grow("script", Ops, 3)
    \/ Grow("tree", BOOLEAN, 7)
    \/ Grow("sum", Amounts, 3)
    \/ Choose("newer", UNION {[1..n -> 0..2] \X [1..m -> 0..2] : n, m \in 1..3})
    \/ Choose("height", Heights \X Heights)
    \/ Grow("super", 1..3, 5)
    \/ Choose("root", Ids(4) \X Ids(4))
    \/ Choose("locator", {x \in (1..30) \X (1..30) \X {0, 1, 5, 30} \X {0, 3, 30} : x[2] <= x[1]})
    \/ Choose("coins", (SUBSET {0, 1, 2, 9, 10, 17, 18} \ {{}}) \X {0, 1, 4, 7, 10, 12}
                       \X {<<TRUE, 0, 1>>, <<FALSE, 200, 2>>})
    \/ Grow("undo", Undos, 3)
    \/ Choose("number", {<<n>> : n \in Varints})
    \/ Grow("log", {0, 1, 2, 3, 4, 5, 9}, 3)
    \/ Choose("varint", {<<n>> : n \in 0..(2^VWidth - 1)})
    \/ Grow("batch", BatchOps, 4)
    \/ Grow("edit", Edits, 3)
    \/ Grow("table", {e \in Entries : input # <<>> => KeyLess(Last(input).key, e.key)}, 10)
    \/ Choose("address", {x \in V4 \X V4 : x[1][2] = x[2][2]})
    \/ Grow("time", {s \in (1..6) \X Offsets : s[1] \in {Len(input) + 1, 1}}, 5)
    \/ Choose("words", (0..255) \X {0, 1, 16, 255} \X {0, 1, 3, 4, 5, 8, 9})
    \/ Choose("integer", {<<n>> : n \in -600..600})

RulesInit == part \in Parts /\ input = <<>> /\ Init
RulesNext == \/ part = "target" /\ Next /\ UNCHANGED <<part, input>>
             \/ ChooseInput /\ UNCHANGED <<part, vars>>
RulesSpec == RulesInit /\ [][RulesNext]_rulevars

-----------------------------------------------------------------------------
(* The properties                                                          *)
Given(p) == part = p /\ input # <<>>

\* The chain type and length of an accepted certificate are those of the longest
\* chain of probable primes at its origin, and meet the target, and no half of an
\* accepted multiplier has a longer chain (CheckPrimeProofOfWork); a harder target
\* is worth no less work; and the median of the timestamps never goes back.
ProofsGenuine ==
    /\ [](part = "target" => ChainIsGenuine /\ CertificateNormalized /\ HarderIsMoreWork)
    /\ MedianAdvances

\* A signature that SignSignature makes verifies for the transaction it was made
\* for and for no other that the hash type does not leave open; two partial
\* signatures combined verify once they have enough keys; a branch that is not
\* taken changes nothing; and a script checks no more signatures than the
\* counters that bound a block say (script.cpp).
ScriptsSound ==
    /\ Given("sign") => SignaturesCommit(input[2], input[1], Tx0, input[4], input[3], OtherTxs)
    /\ Given("combine") => CombinedVerifies(input[2], input[3], input[1], Tx0, 1, 1)
    /\ part = "script" =>
          /\ BranchesSound(<<Num(1)>>, input, Context)
          /\ SigOpsBounded(input, PayToScriptID(ScriptID(Redeem)), Context)
          /\ \A i \in 0..Len(input) :
                SigOpsBounded(SubSeq(input, 1, i), SubSeq(input, i + 1, Len(input)), Context)

\* The rules of blocks decide what they are for: a partial merkle tree proves
\* exactly the matched transactions; an accepted transaction creates no money by
\* overflow, and of two only one is the newer; two blocks with one merkle root
\* that both pass CheckBlock have the same transactions; a coinbase of the super
\* majority names its height, no other's; and a locator finds the fork.
RulesExact ==
    /\ Given("tree") => PartialTreeExact([i \in DOMAIN input |-> TxHash(i)], input)
    /\ Given("sum") => LET tx == Transaction(Vin(<<3>>), Pays(input)) IN TransactionRulesExact(tx, tx)
    /\ Given("newer") => TransactionRulesExact(Transaction(Vin(input[1]), Pays(<<40>>)),
                                               Transaction(Vin(input[2]), Pays(<<40>>)))
    /\ Given("height") =>
          LET c == push_int64(input[1]) \o push_int64(input[2])
          IN  \A d \in {c, push_int64(input[2]) \o push_int64(input[1]), SubSeq(c, 1, 2)} :
                 CoinbasesDiffer(WithCoinbase(d), WithCoinbase(d), VersionTwo(input[1]), VersionTwo(input[2]))
    /\ part = "super" => CoinbasesDiffer(WithCoinbase(<<>>), WithCoinbase(<<>>), input, input)
    /\ Given("root") => RootDecides(WithIds(input[1]), WithIds(input[2]), 5)
    /\ Given("locator") =>
          LET mine == Branch(input[1], input[2], "side")
              main == Branch(input[2] + input[3], input[2] + input[3], "main")
          IN  \A known \in {ToSet(main), ToSet(main) \cup ToSet(mine)} :
                 LocatorFindsFork(mine, known, main, <<"main", input[4]>>)

\* What is written is what is read, whatever comes after it: coins and undo
\* records (CCoins, CTxInUndo, VARINT), log records across blocks, varints, write
\* batches, version edits and tables of leveldb, and the words, hex digits and
\* signed bytes of big numbers (base_uint, CBigNum).
FormatsReadBack ==
    /\ Given("coins") => CoinsReadBack(CoinsOf(input[1], input[2], input[3]), <<255, 1>>)
    /\ part = "undo" => UndoReadsBack(input, <<255, 1>>)
    /\ Given("number") => NumbersReadBack(input[1], <<255, 1>>)
    /\ part = "log" => LogReadsBack(input)
    /\ Given("varint") => \A r \in {<<>>, <<1>>, <<B>>} : VarintsRead(input[1], r)
    /\ part = "batch" => BatchReadsBack(input, 3)
    /\ part = "edit" => EditReadsBack(input)
    /\ part = "table" => TableReadsBack(input, Targets)
    /\ Given("words") =>
          WordsAreNumbers(input[1], input[2], input[3],
                          GetHex(WordsOf(input[1])) \o [i \in 1..input[3] |-> i % 2])
    /\ Given("integer") => NumbersConvert(input[1])

\* What peers tell is weighed right: addresses are grouped by the network that
\* could give them out, however they are encoded (CNetAddr::GetGroup), and the
\* offset of the clock lies between offsets of honest peers as long as these are
\* the majority, each peer counting once (AddTimeData).
PeersWeighed ==
    /\ Given("address") => \A v6 \in V6, p \in Partners : GroupsSound(input[1], input[2], v6, p)
    /\ Given("time") => \A lo, hi \in Offsets : TimeOffsetHonest(input, lo, hi)
=============================================================================
