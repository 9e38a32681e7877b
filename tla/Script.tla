------------------------------- MODULE Script -------------------------------
(***************************************************************************)
(* The script interpreter of script.cpp.  A script is a sequence of         *)
(* operations: <<"push", v>> for a data push, <<"num", n>> for OP_1NEGATE   *)
(* and OP_1 .. OP_16, and <<name>> for every other opcode.  A stack element *)
(* is one of                                                                *)
(*   <<"n", k>>            the shortest encoding of the number k            *)
(*   <<"negzero">>         the byte 0x80                                    *)
(*   <<"hash", f, v>>      the digest of v under the hash function f        *)
(*   <<"key", k, c>>       public key k, compressed or not                  *)
(*   <<"sig", k, h, t, c>> a signature by k of h, its hash type, canonical  *)
(*   <<"script", s>>       the serialization of the script s                *)
(***************************************************************************)
EXTENDS Integers, Sequences, FiniteSets, SequencesExt

CONSTANTS MaxNum,        \* the largest number of nMaxNumSize bytes
          MaxElement,    \* MAX_SCRIPT_ELEMENT_SIZE
          MaxScript,     \* 10000 bytes
          MaxOps,        \* 201
          MaxStack,      \* 1000
          MaxKeys        \* 20

Push(v) == <<"push", v>>
Num(n) == <<"n", n>>
vchFalse == Num(0)
vchTrue == Num(1)
OP_0 == Push(vchFalse)
OP_N(n) == IF n = 0 THEN OP_0 ELSE <<"num", n>>      \* EncodeOP_N

\* Bytes of an element, of an operation and of a script.
RECURSIVE ElementSize(_)
RECURSIVE ScriptSize(_)
ScriptSize(script) ==
    IF script = <<>> THEN 0
    ELSE 1 + (IF script[1][1] = "push" THEN ElementSize(script[1][2]) ELSE 0) + ScriptSize(Tail(script))
ElementSize(v) ==
    CASE v[1] = "n" -> IF v[2] = 0 THEN 0 ELSE 1
      [] v[1] = "negzero" -> 1
      [] v[1] = "hash" -> IF v[2] \in {"HASH160", "SHA1", "RIPEMD160"} THEN 20 ELSE 32
      [] v[1] = "key" -> IF v[3] THEN 33 ELSE 65
      [] v[1] = "sig" -> 72
      [] OTHER -> ScriptSize(v[2])

Hash160(v) == <<"hash", "HASH160", v>>
\* CastToBool; CastToBigNum throws for what is longer than nMaxNumSize bytes.
CastToBool(v) == v # vchFalse /\ v # <<"negzero">>
Fits(v) == v[1] = "negzero" \/ (v[1] = "n" /\ v[2] \in -MaxNum .. MaxNum)
CastToBigNum(v) == IF v[1] = "negzero" THEN 0 ELSE v[2]
Bool(b) == IF b THEN vchTrue ELSE vchFalse

----------------------------------------------------------------------------
(* Opcodes                                                                 *)

Disabled == {<<"CAT">>, <<"SUBSTR">>, <<"LEFT">>, <<"RIGHT">>, <<"INVERT">>, <<"AND">>,
             <<"OR">>, <<"XOR">>, <<"2MUL">>, <<"2DIV">>, <<"MUL">>, <<"DIV">>,
             <<"MOD">>, <<"LSHIFT">>, <<"RSHIFT">>}
\* OP_IF .. OP_ENDIF, looked at in a branch that is not taken too.
Control == {<<"IF">>, <<"NOTIF">>, <<"VERIF">>, <<"VERNOTIF">>, <<"ELSE">>, <<"ENDIF">>}
\* opcode > OP_16.
Counted(op) == op[1] \notin {"push", "num", "RESERVED"}

\* Stack operations: how many elements they take off and which of those, numbered
\* from the bottom, they put back.
StackOps == [
    DROP  |-> <<1, <<>> >>,             DUP    |-> <<1, <<1, 1>> >>,
    NIP   |-> <<2, <<2>> >>,            OVER   |-> <<2, <<1, 2, 1>> >>,
    SWAP  |-> <<2, <<2, 1>> >>,         TUCK   |-> <<2, <<2, 1, 2>> >>,
    ROT   |-> <<3, <<2, 3, 1>> >>,      2DROP  |-> <<2, <<>> >>,
    2DUP  |-> <<2, <<1, 2, 1, 2>> >>,   3DUP   |-> <<3, <<1, 2, 3, 1, 2, 3>> >>,
    2OVER |-> <<4, <<1, 2, 3, 4, 1, 2>> >>,
    2SWAP |-> <<4, <<3, 4, 1, 2>> >>,   2ROT   |-> <<6, <<3, 4, 5, 6, 1, 2>> >>]

Unary(op, n) ==
    CASE op = "1ADD" -> n + 1          [] op = "1SUB" -> n - 1
      [] op = "NEGATE" -> -n           [] op = "ABS" -> IF n < 0 THEN -n ELSE n
      [] op = "NOT" -> IF n = 0 THEN 1 ELSE 0
      [] op = "0NOTEQUAL" -> IF n # 0 THEN 1 ELSE 0
UnaryOps == {"1ADD", "1SUB", "NEGATE", "ABS", "NOT", "0NOTEQUAL"}

Compared(op, a, b) ==
    CASE op = "BOOLAND" -> a # 0 /\ b # 0    [] op = "BOOLOR" -> a # 0 \/ b # 0
      [] op \in {"NUMEQUAL", "NUMEQUALVERIFY"} -> a = b
      [] op = "NUMNOTEQUAL" -> a # b
      [] op = "LESSTHAN" -> a < b            [] op = "GREATERTHAN" -> a > b
      [] op = "LESSTHANOREQUAL" -> a <= b    [] op = "GREATERTHANOREQUAL" -> a >= b
Binary(op, a, b) ==
    CASE op = "ADD" -> a + b     [] op = "SUB" -> a - b
      [] op = "MIN" -> IF a < b THEN a ELSE b
      [] op = "MAX" -> IF a > b THEN a ELSE b
      [] OTHER -> IF Compared(op, a, b) THEN 1 ELSE 0
BinaryOps == {"ADD", "SUB", "BOOLAND", "BOOLOR", "NUMEQUAL", "NUMEQUALVERIFY",
              "NUMNOTEQUAL", "LESSTHAN", "GREATERTHAN", "LESSTHANOREQUAL",
              "GREATERTHANOREQUAL", "MIN", "MAX"}
HashOps == {"RIPEMD160", "SHA1", "SHA256", "HASH160", "HASH256"}

----------------------------------------------------------------------------
(* Signatures                                                              *)

SIGHASH_ALL == 1
SIGHASH_NONE == 2
SIGHASH_SINGLE == 3
SIGHASH_ANYONECANPAY == 128

\* FindAndDelete of a one-operation script.
FindAndDelete(script, op) == SelectSeq(script, LAMBDA o : o # op)

\* SignatureHash: the script and what is left of the transaction; <<"one">> is
\* the constant returned when there is no output at the input's position.
\* tx.vin is a sequence of [prevout, seq], tx.vout a sequence of values.
SignatureHash(scriptCode, tx, nIn, type) ==
    LET code == FindAndDelete(scriptCode, <<"CODESEPARATOR">>)
        kind == type % 32
        others == kind \in {SIGHASH_NONE, SIGHASH_SINGLE}
        vin == [i \in 1 .. Len(tx.vin) |->
            IF others /\ i # nIn THEN [tx.vin[i] EXCEPT !.seq = 0] ELSE tx.vin[i]]
        vout == CASE kind = SIGHASH_NONE -> <<>>
                  [] kind = SIGHASH_SINGLE ->
                       [i \in 1 .. nIn |-> IF i = nIn THEN tx.vout[i] ELSE <<"null">>]
                  [] OTHER -> tx.vout
    IN  IF nIn > Len(tx.vin) \/ (kind = SIGHASH_SINGLE /\ nIn > Len(tx.vout))
        THEN <<"one">>
        ELSE IF type >= SIGHASH_ANYONECANPAY
             THEN <<"digest", code, 1, <<vin[nIn]>>, vout, type>>
             ELSE <<"digest", code, nIn, vin, vout, type>>

\* CheckSig.  ctx is [tx, nIn, type, strict, p2sh].
CheckSig(sig, key, code, ctx) ==
    /\ sig[1] = "sig" /\ key[1] = "key"
    /\ ctx.type \in {0, sig[4]}
    /\ sig[2] = key[2]
    /\ sig[3] = SignatureHash(code, ctx.tx, ctx.nIn, sig[4])

\* IsCanonicalSignature and IsCanonicalPubKey, under SCRIPT_VERIFY_STRICTENC.
Encoded(sig, key, ctx) == ctx.strict => (sig[1] = "sig" /\ sig[5] /\ key[1] = "key")

\* The loop of OP_CHECKMULTISIG: the verdict and how many signatures it checked.
RECURSIVE MatchSigs(_, _, _, _)
MatchSigs(sigs, keys, code, ctx) ==
    IF sigs = <<>> THEN <<TRUE, 0>>
    ELSE LET ok == Encoded(sigs[1], keys[1], ctx) /\ CheckSig(sigs[1], keys[1], code, ctx)
             left == IF ok THEN Tail(sigs) ELSE sigs
             rest == IF Len(left) > Len(keys) - 1 THEN <<FALSE, 0>>
                     ELSE MatchSigs(left, Tail(keys), code, ctx)
         IN  <<rest[1], rest[2] + 1>>

----------------------------------------------------------------------------
(* EvalScript                                                              *)

\* The interpreter: stack, alt(stack), exec (vfExec), ops (nOpCount), start
\* (pbegincodehash), ok, and how many signatures it checked.
Machine(stack) == [stack |-> stack, alt |-> <<>>, exec |-> <<>>, ops |-> 0,
                   start |-> 1, ok |-> TRUE, checks |-> 0]
Fail(m) == [m EXCEPT !.ok = FALSE]

Top(s, i) == s[Len(s) + 1 - i]
Pop(s, n) == SubSeq(s, 1, Len(s) - n)
Replace(m, n, new) == [m EXCEPT !.stack = Pop(@, n) \o new]
\* The last step of the VERIFY forms: the result is taken off, or the script fails.
Verdict(m, n, ok, verify) ==
    CASE ~verify -> Replace(m, n, <<Bool(ok)>>)
      [] verify /\ ok -> Replace(m, n, <<>>)
      [] OTHER -> Fail(m)

DoControl(m, op, executing) ==
    CASE op[1] \in {"IF", "NOTIF"} /\ ~executing -> [m EXCEPT !.exec = Append(@, FALSE)]
      [] op[1] \in {"IF", "NOTIF"} /\ executing ->
            IF m.stack = <<>> THEN Fail(m)
            ELSE [Replace(m, 1, <<>>) EXCEPT !.exec =
                    Append(@, CastToBool(Top(m.stack, 1)) = (op[1] = "IF"))]
      [] op[1] = "ELSE" /\ m.exec # <<>> -> [m EXCEPT !.exec[Len(m.exec)] = ~@]
      [] op[1] = "ENDIF" /\ m.exec # <<>> -> [m EXCEPT !.exec = Pop(@, 1)]
      [] OTHER -> Fail(m)

DoStack(m, op) ==
    LET n == StackOps[op[1]][1]
        taken == SubSeq(m.stack, Len(m.stack) - n + 1, Len(m.stack))
        order == StackOps[op[1]][2]
    IN  IF Len(m.stack) < n THEN Fail(m)
        ELSE Replace(m, n, [i \in 1 .. Len(order) |-> taken[order[i]]])

DoPick(m, op) ==
    LET n == CastToBigNum(Top(m.stack, 1))
        s == Pop(m.stack, 1)
        roll == IF op[1] = "ROLL" THEN RemoveAt(s, Len(s) - n) ELSE s
    IN  IF Len(m.stack) < 2 \/ ~Fits(Top(m.stack, 1)) THEN Fail(m)
        ELSE IF n < 0 \/ n >= Len(s) THEN Fail(m)
        ELSE [m EXCEPT !.stack = Append(roll, Top(s, n + 1))]

DoNumeric(m, op) ==
    LET arity == IF op[1] \in UnaryOps THEN 1 ELSE IF op[1] = "WITHIN" THEN 3 ELSE 2
        x(i) == CastToBigNum(Top(m.stack, i))
    IN  IF Len(m.stack) < arity THEN Fail(m)
        ELSE IF \E i \in 1 .. arity : ~Fits(Top(m.stack, i)) THEN Fail(m)
        ELSE IF op[1] \in UnaryOps THEN Replace(m, 1, <<Num(Unary(op[1], x(1)))>>)
        ELSE IF op[1] = "WITHIN"
             THEN Replace(m, 3, <<Bool(x(2) <= x(3) /\ x(3) < x(1))>>)
        ELSE IF op[1] = "NUMEQUALVERIFY" THEN Verdict(m, 2, x(2) = x(1), TRUE)
        ELSE Replace(m, 2, <<Num(Binary(op[1], x(2), x(1)))>>)

DoCheckSig(m, op, script, ctx) ==
    LET sig == Top(m.stack, 2)
        key == Top(m.stack, 1)
        code == FindAndDelete(SubSeq(script, m.start, Len(script)), Push(sig))
    IN  IF Len(m.stack) < 2 THEN Fail(m)
        ELSE Verdict([m EXCEPT !.checks = @ + 1], 2,
                     Encoded(sig, key, ctx) /\ CheckSig(sig, key, code, ctx),
                     op[1] = "CHECKSIGVERIFY")

DoMultiSig(m, op, script, ctx) ==
    LET s == m.stack
        code(sigs) == SelectSeq(SubSeq(script, m.start, Len(script)),
                                LAMBDA o : \A i \in DOMAIN sigs : o # Push(sigs[i]))
        judged(m2, n, match) == Verdict([m2 EXCEPT !.checks = @ + match[2]], n, match[1],
                                        op[1] = "CHECKMULTISIGVERIFY")
        matched(m2, keys, sigs) == judged(m2, 3 + Len(keys) + Len(sigs),
                                          MatchSigs(sigs, keys, code(sigs), ctx))
        signed(m2, nKeys, nSigs) ==
            IF nSigs \notin 0 .. nKeys \/ Len(s) < 3 + nKeys + nSigs THEN Fail(m)
            ELSE matched(m2, [i \in 1 .. nKeys |-> Top(s, 1 + i)],
                         [i \in 1 .. nSigs |-> Top(s, 2 + nKeys + i)])
        keyed(m2, nKeys) ==
            IF nKeys \notin 0 .. MaxKeys \/ m2.ops > MaxOps \/ Len(s) < 2 + nKeys THEN Fail(m)
            ELSE IF ~Fits(Top(s, 2 + nKeys)) THEN Fail(m)
            ELSE signed(m2, nKeys, CastToBigNum(Top(s, 2 + nKeys)))
        counted(nKeys) == keyed([m EXCEPT !.ops = @ + nKeys], nKeys)
    IN  IF s = <<>> \/ (s # <<>> /\ ~Fits(Top(s, 1))) THEN Fail(m)
        ELSE counted(CastToBigNum(Top(s, 1)))

\* Small numbers, no-ops, VERIFY and the alternative stack.
DoFlow(m, op) ==
    LET t == Top(m.stack, 1)
    IN  CASE op[1] = "num" -> Replace(m, 0, <<Num(op[2])>>)
          [] op[1] = "NOP" -> m
          [] op[1] = "VERIFY" /\ m.stack # <<>> -> Verdict(m, 1, CastToBool(t), TRUE)
          [] op[1] = "TOALTSTACK" /\ m.stack # <<>> ->
                [Replace(m, 1, <<>>) EXCEPT !.alt = Append(@, t)]
          [] op[1] = "FROMALTSTACK" /\ m.alt # <<>> ->
                [Replace(m, 0, <<Top(m.alt, 1)>>) EXCEPT !.alt = Pop(@, 1)]
          [] OTHER -> Fail(m)

\* What is pushed for what is on the stack, and stays there.
DoCopy(m, op) ==
    LET t == Top(m.stack, 1)
    IN  CASE op[1] = "DEPTH" -> Replace(m, 0, <<Num(Len(m.stack))>>)
          [] op[1] = "IFDUP" /\ m.stack # <<>> ->
                IF CastToBool(t) THEN Replace(m, 0, <<t>>) ELSE m
          [] op[1] = "SIZE" /\ m.stack # <<>> -> Replace(m, 0, <<Num(ElementSize(t))>>)
          [] OTHER -> Fail(m)

DoEqual(m, op) ==
    IF Len(m.stack) < 2 THEN Fail(m)
    ELSE Verdict(m, 2, Top(m.stack, 2) = Top(m.stack, 1), op[1] = "EQUALVERIFY")

DoHash(m, op) ==
    IF m.stack = <<>> THEN Fail(m)
    ELSE Replace(m, 1, << <<"hash", op[1], Top(m.stack, 1)>> >>)

\* The switch; an opcode without a case fails in DoFlow.
Execute(m, op, script, i, ctx, executing) ==
    CASE op \in Control -> DoControl(m, op, executing)
      [] op[1] \in DOMAIN StackOps -> DoStack(m, op)
      [] op[1] \in {"PICK", "ROLL"} -> DoPick(m, op)
      [] op[1] \in UnaryOps \cup BinaryOps \cup {"WITHIN"} -> DoNumeric(m, op)
      [] op[1] \in {"CHECKSIG", "CHECKSIGVERIFY"} -> DoCheckSig(m, op, script, ctx)
      [] op[1] \in {"CHECKMULTISIG", "CHECKMULTISIGVERIFY"} -> DoMultiSig(m, op, script, ctx)
      [] op[1] \in {"IFDUP", "DEPTH", "SIZE"} -> DoCopy(m, op)
      [] op[1] \in {"EQUAL", "EQUALVERIFY"} -> DoEqual(m, op)
      [] op[1] \in HashOps -> DoHash(m, op)
      [] op[1] = "CODESEPARATOR" -> [m EXCEPT !.start = i + 1]
      [] OTHER -> DoFlow(m, op)

\* The size limit at the end of a turn of the loop.
Limited(m) == IF Len(m.stack) + Len(m.alt) > MaxStack THEN Fail(m) ELSE m

\* One turn of the loop.
Step(m, script, i, ctx) ==
    LET op == script[i]
        executing == \A j \in DOMAIN m.exec : m.exec[j]
        counted == [m EXCEPT !.ops = @ + (IF Counted(op) THEN 1 ELSE 0)]
    IN  IF ~m.ok THEN m
        ELSE IF \/ op[1] = "push" /\ ElementSize(op[2]) > MaxElement
                \/ counted.ops > MaxOps
                \/ op \in Disabled THEN Fail(m)
        ELSE Limited(CASE op[1] = "push" /\ executing -> Replace(counted, 0, <<op[2]>>)
                       [] op[1] # "push" /\ (executing \/ op \in Control) ->
                             Execute(counted, op, script, i, ctx, executing)
                       [] OTHER -> counted)

RECURSIVE Run(_, _, _, _)
Run(m, script, i, ctx) ==
    IF i > Len(script) THEN m ELSE Run(Step(m, script, i, ctx), script, i + 1, ctx)

\* EvalScript: its verdict, the stack it leaves (for a script that succeeds, or
\* that only pushes) and how many signatures it checked.
EvalScript(stack, script, ctx) ==
    LET outcome(m) == [ok |-> m.ok /\ m.exec = <<>>, stack |-> m.stack, checks |-> m.checks]
    IN  outcome(IF ScriptSize(script) > MaxScript THEN Fail(Machine(stack))
                ELSE Run(Machine(stack), script, 1, ctx))

----------------------------------------------------------------------------
(* VerifyScript and the counts                                             *)

IsPayToScriptHash(script) ==
    /\ Len(script) = 3 /\ script[1] = <<"HASH160">> /\ script[3] = <<"EQUAL">>
    /\ script[2][1] = "push" /\ ElementSize(script[2][2]) = 20

IsPushOnly(script) == \A i \in DOMAIN script : ~Counted(script[i])

\* A script as data and back; data that is no script reads as one that fails.
Serialized(script) == IF script = <<>> THEN vchFalse ELSE <<"script", script>>
Deserialized(v) == CASE v = vchFalse -> <<>>
                     [] v[1] = "script" -> v[2]
                     [] OTHER -> << <<"RESERVED">> >>

\* VerifyScript, as the verdict and how many signatures were checked.
VerifyScript(scriptSig, scriptPubKey, ctx) ==
    LET holds(r) == r.ok /\ r.stack # <<>> /\ CastToBool(Top(r.stack, 1))
        result(ok, r, n) == [ok |-> ok, checks |-> n + r.checks]
        after(r, n) == result(holds(r), r, n)
        redeem(a, b) ==
            IF ~(ctx.p2sh /\ IsPayToScriptHash(scriptPubKey) /\ holds(b))
            THEN after(b, a.checks)
            ELSE IF ~IsPushOnly(scriptSig) THEN result(FALSE, b, a.checks)
            ELSE after(EvalScript(Pop(a.stack, 1), Deserialized(Top(a.stack, 1)), ctx),
                       a.checks + b.checks)
        spend(a) == IF ~a.ok THEN result(FALSE, a, 0)
                    ELSE redeem(a, EvalScript(a.stack, scriptPubKey, ctx))
    IN  spend(EvalScript(<<>>, scriptSig, ctx))

\* GetSigOpCount(fAccurate).
SigOps(script, accurate) ==
    LET count(i) ==
          CASE script[i][1] \in {"CHECKSIG", "CHECKSIGVERIFY"} -> 1
            [] script[i][1] \in {"CHECKMULTISIG", "CHECKMULTISIGVERIFY"} ->
                 IF accurate /\ i > 1 /\ script[i - 1][1] = "num" /\ script[i - 1][2] > 0
                 THEN script[i - 1][2] ELSE MaxKeys
            [] OTHER -> 0
        upto[i \in 0 .. Len(script)] == IF i = 0 THEN 0 ELSE upto[i - 1] + count(i)
    IN  upto[Len(script)]

(* The variant does not look at the redeem script. *)
SigOpsOfOutput(scriptPubKey, scriptSig) == SigOps(scriptPubKey, TRUE)

\* GetSigOpCount(scriptSig).
GetSigOpCount(scriptPubKey, scriptSig) ==
    IF ~IsPayToScriptHash(scriptPubKey) THEN SigOps(scriptPubKey, TRUE)
    ELSE IF scriptSig = <<>> \/ ~IsPushOnly(scriptSig) THEN 0
    ELSE LET op == scriptSig[Len(scriptSig)]
         IN  IF op[1] = "push" THEN SigOps(Deserialized(op[2]), TRUE) ELSE 0

-----------------------------------------------------------------------------
(* Recognising, signing and combining standard scripts (script.cpp).  A     *)
(* key store is [keys, scripts]: the public keys whose private key it holds *)
(* and the redemption scripts it knows.                                     *)

PubKey(k) == <<"key", k, TRUE>>
KeyID(key) == Hash160(key)
ScriptID(script) == Hash160(Serialized(script))

\* SetDestination and SetMultisig.
PayToKeyID(id) == << <<"DUP">>, <<"HASH160">>, Push(id), <<"EQUALVERIFY">>, <<"CHECKSIG">> >>
PayToScriptID(id) == << <<"HASH160">>, Push(id), <<"EQUAL">> >>
PayToPubKey(key) == << Push(key), <<"CHECKSIG">> >>
SetMultisig(nRequired, keys) ==
    <<OP_N(nRequired)>> \o [i \in 1 .. Len(keys) |-> Push(keys[i])]
        \o <<OP_N(Len(keys)), <<"CHECKMULTISIG">> >>

----------------------------------------------------------------------------
(* Solver                                                                  *)

IsPubKeyPush(op) == op[1] = "push" /\ ElementSize(op[2]) \in 33 .. 120
IsSmallInteger(op) == op = OP_0 \/ (op[1] = "num" /\ op[2] > 0)
DecodeOP_N(op) == IF op = OP_0 THEN 0 ELSE op[2]

\* The result of Solver: its return value, the type and the solutions.
Solved(ok, type, solutions) == [ok |-> ok, type |-> type, sol |-> solutions]

IsPubKeyTemplate(s) == Len(s) = 2 /\ IsPubKeyPush(s[1]) /\ s[2] = <<"CHECKSIG">>
IsKeyHashTemplate(s) ==
    /\ Len(s) = 5 /\ s[1] = <<"DUP">> /\ s[2] = <<"HASH160">>
    /\ s[4] = <<"EQUALVERIFY">> /\ s[5] = <<"CHECKSIG">>
    /\ s[3][1] = "push" /\ ElementSize(s[3][2]) = 20
IsMultisigTemplate(s) ==
    /\ Len(s) >= 3 /\ s[Len(s)] = <<"CHECKMULTISIG">>
    /\ IsSmallInteger(s[1]) /\ IsSmallInteger(s[Len(s) - 1])
    /\ \A i \in 2 .. Len(s) - 2 : IsPubKeyPush(s[i])

Solver(s) ==
    LET keys == [i \in 1 .. Len(s) - 3 |-> s[i + 1][2]]
        m == DecodeOP_N(s[1])
        n == DecodeOP_N(s[Len(s) - 1])
    IN  CASE IsPayToScriptHash(s) -> Solved(TRUE, "SCRIPTHASH", <<s[2][2]>>)
          [] IsPubKeyTemplate(s) -> Solved(TRUE, "PUBKEY", <<s[1][2]>>)
          [] IsKeyHashTemplate(s) -> Solved(TRUE, "PUBKEYHASH", <<s[3][2]>>)
          [] IsMultisigTemplate(s) ->
                Solved(~(m < 1 \/ n < 1 \/ m > n \/ Len(keys) # n), "MULTISIG",
                       <<m>> \o keys \o <<n>>)
          [] OTHER -> Solved(FALSE, "NONSTANDARD", <<>>)

\* The public keys of a multisig solution.
Keys(sol) == SubSeq(sol, 2, Len(sol) - 1)

ScriptSigArgsExpected(v) ==
    CASE v.type = "PUBKEY" -> 1
      [] v.type = "PUBKEYHASH" -> 2
      [] v.type = "SCRIPTHASH" -> 1
      [] v.type = "MULTISIG" -> IF v.sol = <<>> THEN -1 ELSE v.sol[1] + 1
      [] OTHER -> -1

IsStandard(s) ==
    LET standard(v) == /\ v.ok
                       /\ v.type = "MULTISIG" => /\ v.sol[Len(v.sol)] \in 1 .. 3
                                                 /\ v.sol[1] \in 1 .. v.sol[Len(v.sol)]
    IN  standard(Solver(s))

\* CTransaction::AreInputsStandard, for one input and the output it spends: the
\* input leaves as many elements as the template, and the redemption script, take.
AreInputsStandard(prevScript, scriptSig, ctx) ==
    LET redeemable(sub) == sub.ok /\ sub.type # "SCRIPTHASH" /\ ScriptSigArgsExpected(sub) >= 0
        expected(v, sub, stack) ==
            redeemable(sub) /\ Len(stack) = ScriptSigArgsExpected(v) + ScriptSigArgsExpected(sub)
        fits(v, run) ==
            /\ v.ok /\ ScriptSigArgsExpected(v) >= 0 /\ run.ok
            /\ IF v.type # "SCRIPTHASH" THEN Len(run.stack) = ScriptSigArgsExpected(v)
               ELSE run.stack # <<>>
                    /\ expected(v, Solver(Deserialized(Top(run.stack, 1))), run.stack)
    IN  fits(Solver(prevScript), EvalScript(<<>>, scriptSig, ctx))

HaveKey(store, id) == \E key \in store.keys : KeyID(key) = id
\* GetCScript: the set of known scripts with that identifier.
GetCScript(store, id) == {s \in store.scripts : ScriptID(s) = id}

RECURSIVE IsMine(_, _)
IsMine(store, s) ==
    LET mine(v) ==
          /\ v.ok
          /\ CASE v.type = "PUBKEY" -> HaveKey(store, KeyID(v.sol[1]))
               [] v.type = "PUBKEYHASH" -> HaveKey(store, v.sol[1])
               [] v.type = "SCRIPTHASH" -> \E r \in GetCScript(store, v.sol[1]) : IsMine(store, r)
               [] v.type = "MULTISIG" -> \A key \in ToSet(Keys(v.sol)) : HaveKey(store, KeyID(key))
    IN  mine(Solver(s))

\* ExtractDestinations, as the identifiers and how many must sign.
ExtractDestinations(s) ==
    LET ids(v) ==
          CASE ~v.ok -> <<"none", <<>>, 0>>
            [] v.ok /\ v.type = "MULTISIG" ->
                  <<v.type, [i \in DOMAIN Keys(v.sol) |-> KeyID(Keys(v.sol)[i])], v.sol[1]>>
            [] v.ok /\ v.type = "PUBKEY" -> <<v.type, <<KeyID(v.sol[1])>>, 1>>
            [] OTHER -> <<v.type, <<v.sol[1]>>, 1>>
    IN  ids(Solver(s))

----------------------------------------------------------------------------
(* Signing                                                                 *)

\* Sign1 and SignN: the operations appended, and whether all was signed.
Sign1(store, id, hash, type) ==
    IF ~HaveKey(store, id) THEN [ok |-> FALSE, script |-> <<>>]
    ELSE LET key == CHOOSE k \in store.keys : KeyID(k) = id
         IN  [ok |-> TRUE, script |-> <<Push(<<"sig", key[2], hash, type, TRUE>>)>>]

SignN(store, sol, hash, type) ==
    LET add(r, one) == [n |-> r.n + (IF one.ok THEN 1 ELSE 0), script |-> r.script \o one.script]
        sign(r, key) == IF r.n = sol[1] THEN r ELSE add(r, Sign1(store, KeyID(key), hash, type))
        done(all) == [ok |-> all.n = sol[1], script |-> all.script]
    IN  done(FoldLeft(sign, [n |-> 0, script |-> <<>>], Keys(sol)))

\* The Solver that takes a key store.
SolverSign(store, s, hash, type) ==
    LET result(v, ok, script) == [ok |-> ok, script |-> script, type |-> v.type]
        signed(v, one, more) ==
            IF one.ok THEN result(v, TRUE, one.script \o more) ELSE result(v, FALSE, <<>>)
        found(v, redeems) == IF redeems = {} THEN result(v, FALSE, <<>>)
                             ELSE result(v, TRUE, CHOOSE r \in redeems : TRUE)
        each(v, all) == result(v, all.ok, <<OP_0>> \o all.script)
        by(v) ==
            CASE ~v.ok -> result(v, FALSE, <<>>)
              [] v.ok /\ v.type = "PUBKEY" ->
                    signed(v, Sign1(store, KeyID(v.sol[1]), hash, type), <<>>)
              [] v.ok /\ v.type = "PUBKEYHASH" ->
                    signed(v, Sign1(store, v.sol[1], hash, type),
                           <<Push(CHOOSE k \in store.keys : KeyID(k) = v.sol[1])>>)
              [] v.ok /\ v.type = "SCRIPTHASH" -> found(v, GetCScript(store, v.sol[1]))
              [] v.ok /\ v.type = "MULTISIG" -> each(v, SignN(store, v.sol, hash, type))
    IN  by(Solver(s))

\* SignSignature: the signed input and whether it verifies.
SignSignature(store, fromPubKey, tx, nIn, type) ==
    LET ctx == [tx |-> tx, nIn |-> nIn, type |-> 0, strict |-> TRUE, p2sh |-> TRUE]
        solve(s) == SolverSign(store, s, SignatureHash(s, tx, nIn, type), type)
        redeemed(sub, redeem) == [ok |-> sub.ok /\ sub.type # "SCRIPTHASH",
                                  script |-> Append(sub.script, Push(Serialized(redeem)))]
        signed(first) == IF first.ok /\ first.type = "SCRIPTHASH"
                         THEN redeemed(solve(first.script), first.script) ELSE first
        verified(r) == [ok |-> r.ok /\ VerifyScript(r.script, fromPubKey, ctx).ok,
                        scriptSig |-> r.script]
    IN  verified(signed(solve(fromPubKey)))

----------------------------------------------------------------------------
(* CombineSignatures                                                       *)

PushAll(values) == [i \in 1 .. Len(values) |-> Push(values[i])]

\* CombineMultisig: the signatures both sides hold, in the order of the keys.
CombineMultisig(s, ctx, sol, sigs1, sigs2) ==
    LET all == (ToSet(sigs1) \cup ToSet(sigs2)) \ {vchFalse}
        of(key) == {g \in all : CheckSig(g, key, s, ctx)}
        signers == SelectSeq(Keys(sol), LAMBDA key : of(key) # {})
        have == IF Len(signers) < sol[1] THEN Len(signers) ELSE sol[1]
    IN  <<OP_0>>
        \o [i \in 1 .. have |-> Push(CHOOSE g \in of(signers[i]) : TRUE)]
        \o [i \in 1 .. sol[1] - have |-> OP_0]

RECURSIVE Combine(_, _, _, _, _)
Combine(s, ctx, v, sigs1, sigs2) ==
    LET missing(sigs) == sigs = <<>> \/ (sigs # <<>> /\ Top(sigs, 1) = vchFalse)
        first1 == IF sigs1 = <<>> THEN vchFalse ELSE sigs1[1]
    IN  CASE v.type = "NONSTANDARD" ->
                IF Len(sigs1) >= Len(sigs2) THEN PushAll(sigs1) ELSE PushAll(sigs2)
          [] v.type \in {"PUBKEY", "PUBKEYHASH"} ->
                IF first1 = vchFalse THEN PushAll(sigs2) ELSE PushAll(sigs1)
          [] v.type = "SCRIPTHASH" ->
                IF missing(sigs1) THEN PushAll(sigs2)
                ELSE IF missing(sigs2) THEN PushAll(sigs1)
                ELSE LET redeem == Deserialized(Top(sigs1, 1))
                     IN  Append(Combine(redeem, ctx, Solver(redeem), Pop(sigs1, 1), Pop(sigs2, 1)),
                                Push(Top(sigs1, 1)))
          [] v.type = "MULTISIG" -> CombineMultisig(s, ctx, v.sol, sigs1, sigs2)

CombineSignatures(s, tx, nIn, scriptSig1, scriptSig2) ==
    LET ctx(t) == [tx |-> t, nIn |-> nIn, type |-> 0, strict |-> TRUE, p2sh |-> FALSE]
        pushed(scriptSig) == EvalScript(<<>>, scriptSig, ctx([vin |-> <<>>, vout |-> <<>>])).stack
    IN  Combine(s, ctx(tx), Solver(s), pushed(scriptSig1), pushed(scriptSig2))

----------------------------------------------------------------------------
(* Properties                                                              *)

\* Whether the store's keys are enough for s, by what the script asks for.
RECURSIVE CanSign(_, _)
CanSign(store, s) ==
    LET enough(v) ==
          /\ v.ok
          /\ CASE v.type = "MULTISIG" ->
                    Len(SelectSeq(Keys(v.sol), LAMBDA key : key \in store.keys)) >= v.sol[1]
               [] v.type = "SCRIPTHASH" ->
                    \E r \in GetCScript(store, v.sol[1]) :
                        Solver(r).type # "SCRIPTHASH" /\ CanSign(store, r)
               [] OTHER -> IsMine(store, s)
    IN  enough(Solver(s))

\* What a signature of this type commits to, by the comments of SignatureHash.
Committed(tx, nIn, type) ==
    LET kind == type % 32
        anyone == type >= SIGHASH_ANYONECANPAY
        ins == IF anyone THEN {nIn} ELSE 1 .. Len(tx.vin)
        outs == CASE kind = SIGHASH_NONE -> {}
                  [] kind = SIGHASH_SINGLE -> {nIn}
                  [] OTHER -> 1 .. Len(tx.vout)
    IN  << IF anyone THEN <<tx.vin[nIn].prevout>> ELSE [i \in ins |-> tx.vin[i].prevout],
           {<<i, tx.vin[i].seq>> : i \in {j \in ins : kind = SIGHASH_ALL \/ j = nIn}},
           IF anyone THEN 0 ELSE nIn,
           {<<i, tx.vout[i]>> : i \in outs},
           IF kind = SIGHASH_ALL THEN Len(tx.vout) ELSE 0 >>

\* The signatures of an input.
Signatures(scriptSig) ==
    SelectSeq(scriptSig, LAMBDA op : op[1] = "push" /\ op[2][1] = "sig")

\* SignSignature succeeds exactly when the store holds the keys and scripts that
\* the output asks for; the input it makes then verifies in every transaction
\* that agrees on what the hash type commits to, and in no other.  It is an input
\* that AreInputsStandard would relay, signed by destinations of the output, as
\* many as ExtractDestinations says are needed.  (With
\* SIGHASH_SINGLE and no output at the input's place SignatureHash returns 1
\* and commits to nothing; that case is left out.)
SignaturesCommit(store, s, tx, nIn, type, others) ==
    LET single == type % 32 = SIGHASH_SINGLE
        ctx(t) == [tx |-> t, nIn |-> nIn, type |-> 0, strict |-> TRUE, p2sh |-> TRUE]
        named(dest, sigs) ==
            dest[1] # "SCRIPTHASH" =>
               /\ Len(sigs) = dest[3]
               /\ \A i \in DOMAIN sigs : KeyID(PubKey(sigs[i][2][2])) \in ToSet(dest[2])
        commits(signed) ==
            /\ signed.ok = CanSign(store, s)
            /\ signed.ok =>
                 /\ IsStandard(s) /\ AreInputsStandard(s, signed.scriptSig, ctx(tx))
                 /\ named(ExtractDestinations(s), Signatures(signed.scriptSig))
                 /\ \A t \in others :
                      ((nIn <= Len(t.vin) /\ (single => nIn <= Len(t.vout) /\ nIn <= Len(tx.vout)))
                         => (VerifyScript(signed.scriptSig, s, ctx(t)).ok
                                = (Committed(t, nIn, type) = Committed(tx, nIn, type))))
    IN  commits(SignSignature(store, s, tx, nIn, type))

\* Signatures made by two holders of some of the keys, in either order and with
\* the placeholders SignSignature leaves, combine to a valid input exactly when
\* the two hold enough keys between them.
CombinedVerifies(store1, store2, s, tx, nIn, type) ==
    LET both == [keys |-> store1.keys \cup store2.keys, scripts |-> store1.scripts]
        sig(store) == SignSignature(store, s, tx, nIn, type).scriptSig
        joined == CombineSignatures(s, tx, nIn, sig(store1), sig(store2))
        ctx == [tx |-> tx, nIn |-> nIn, type |-> 0, strict |-> TRUE, p2sh |-> TRUE]
    IN  VerifyScript(joined, s, ctx).ok = CanSign(both, s)

\* VerifyScript never checks more signatures than GetSigOpCount of the two scripts
\* says: the counts that the block limit MAX_BLOCK_SIGOPS is built from.
SigOpsBounded(scriptSig, scriptPubKey, ctx) ==
    VerifyScript(scriptSig, scriptPubKey, ctx).checks
        <= SigOps(scriptSig, FALSE) + SigOps(scriptPubKey, TRUE)
             + GetSigOpCount(scriptPubKey, scriptSig)

\* Conditionals: a script that succeeds has matched IF, ELSE and ENDIF; a balanced
\* branch that is not taken changes nothing and, unless it holds a disabled
\* opcode or a VERIF, cannot make the script fail.
Depth(script, i) ==
    Cardinality({j \in 1 .. i : script[j][1] \in {"IF", "NOTIF"}})
        - Cardinality({j \in 1 .. i : script[j] = <<"ENDIF">>})
Balanced(script) ==
    /\ \A i \in DOMAIN script : Depth(script, i) >= (IF script[i] = <<"ELSE">> THEN 1 ELSE 0)
    /\ Depth(script, Len(script)) = 0
BranchesSound(stack, script, ctx) ==
    LET neutral(skipped) ==
          /\ skipped.ok => skipped.stack = stack /\ skipped.checks = 0
          /\ skipped.ok = /\ ToSet(script) \cap (Disabled \cup {<<"VERIF">>, <<"VERNOTIF">>}) = {}
                          /\ Len(SelectSeq(script, Counted)) + 2 <= MaxOps
    IN  /\ EvalScript(stack, script, ctx).ok => Balanced(script)
        /\ Balanced(script) =>
             neutral(EvalScript(stack, << <<"num", 1>>, <<"NOTIF">> >> \o script \o << <<"ENDIF">> >>, ctx))
=============================================================================
