---------------------------- MODULE CreditsProofs ----------------------------
(***************************************************************************)
(* For any workers, amounts, streak and month lengths, with and without    *)
(* the token contract: the tables agree with each other and with the       *)
(* chain, whatever threads are paying and wherever they die.               *)
(*                                                                         *)
(* The argument goes by what a handler has still before it (Ahead): the    *)
(* lemmas say once what each step does to the job of its actor (Onward),   *)
(* and each invariant is about the tables and the steps that are left.     *)
(***************************************************************************)
EXTENDS Credits, SumsProofs, SequenceTheorems

-----------------------------------------------------------------------------
(* Scripts.                                                                *)

Ops == Burns \cup Mints
Chain == {"send", "wait"}
BonusSteps == {"send", "wait", "tokens", "history"}
Steps == {"send", "wait", "tokens", "history", "checkin", "monthly", "bonus", "use",
          "pdf", "delete"}

LEMMA OpCases ==
    ASSUME NEW op \in Ops
    PROVE  \/ op \in {"signup", "web", "profile"} \/ op = "mint" \/ op = "checkin"
           \/ op = "monthly" \/ op = "burn" \/ op = "cert" \/ op = "withdraw"
  BY DEF Ops, Burns, Mints

\* No table is written twice in one script, and each kind of handler has its
\* own steps, the last of them included.
TableScript(op, s) ==
    /\ s \in Seq(Steps) /\ Len(s) \in 1 .. 4
    /\ \A k \in 1 .. Len(s) :
          /\ s[k] \notin Chain
          /\ \A m \in 1 .. Len(s) : s[m] = s[k] => m = k
          /\ s[k] = "tokens" => op \in Mints
          /\ s[k] = "use" => op \in {"burn", "cert"}
          /\ s[k] = "checkin" => op = "checkin"
          /\ s[k] = "monthly" => op = "checkin" /\ k = Len(s)
          /\ s[k] = "bonus" => op = "monthly"
          /\ s[k] = "pdf" => op = "cert" /\ ~Enabled /\ k = Len(s)
          /\ s[k] = "delete" => op = "withdraw" /\ k = Len(s)
          /\ s[k] = "history" => op # "withdraw"
                                 /\ (op \in {"signup", "web", "profile"} => k = Len(s))
    /\ op \in Mints => \E k \in 1 .. Len(s) : s[k] = "tokens"
    /\ op \in {"burn", "cert"} => \E k \in 1 .. Len(s) : s[k] = "use"
    /\ op # "withdraw" => \E k \in 1 .. Len(s) : s[k] = "history"

\* The elements of short sequences.
LEMMA Short ==
    /\ 1 .. 1 = {1} /\ 1 .. 2 = {1, 2} /\ 1 .. 3 = {1, 2, 3} /\ 1 .. 4 = {1, 2, 3, 4}
  OBVIOUS

LEMMA TablesFacts ==
    ASSUME NEW op \in Ops
    PROVE  TableScript(op, Tables(op))
  <1> DEFINE s == Tables(op)
  <1>1. CASE op \in {"signup", "web", "profile"}
    <2>1. s = <<"tokens", "history">>
      BY <1>1 DEF Tables, BonusScript
    <2>2. /\ s \in Seq(Steps) /\ Len(s) = 2
         /\ s[1] = "tokens" /\ s[2] = "history"
      BY <2>1 DEF Steps
    <2> HIDE DEF s
    <2> QED BY <1>1, <2>2, Short DEF TableScript, Chain, Mints, s
  <1>2. CASE op = "mint"
    <2>3. CASE Enabled
      <3>1. s = <<"history", "tokens">>
        BY <1>2, <2>3 DEF Tables, BonusScript
      <3>2. /\ s \in Seq(Steps) /\ Len(s) = 2
           /\ s[1] = "history" /\ s[2] = "tokens"
        BY <3>1 DEF Steps
      <3> HIDE DEF s
      <3> QED BY <1>2, <2>3, <3>2, Short DEF TableScript, Chain, Mints, s
    <2>4. CASE ~Enabled
      <3>1. s = <<"tokens", "history">>
        BY <1>2, <2>4 DEF Tables, BonusScript
      <3>2. /\ s \in Seq(Steps) /\ Len(s) = 2
           /\ s[1] = "tokens" /\ s[2] = "history"
        BY <3>1 DEF Steps
      <3> HIDE DEF s
      <3> QED BY <1>2, <2>4, <3>2, Short DEF TableScript, Chain, Mints, s
    <2> QED BY <2>3, <2>4
  <1>3. CASE op = "checkin"
    <2>1. s = <<"tokens", "checkin", "history", "monthly">>
      BY <1>3 DEF Tables, BonusScript
    <2>2. /\ s \in Seq(Steps) /\ Len(s) = 4
         /\ s[1] = "tokens" /\ s[2] = "checkin" /\ s[3] = "history" /\ s[4] = "monthly"
      BY <2>1 DEF Steps
    <2> HIDE DEF s
    <2>3. Len(s) \in 1 .. 4 /\ op \in Mints
      BY <1>3, <2>2 DEF Mints
    <2>4. \A k \in 1 .. Len(s) : k \in {1, 2, 3, 4}
      BY <2>2, Short
    <2>5. 1 \in 1 .. Len(s) /\ 3 \in 1 .. Len(s)
      BY <2>2
    <2>6. \A k \in 1 .. Len(s) :
             \/ k = 1 /\ s[k] = "tokens"
             \/ k = 2 /\ s[k] = "checkin"
             \/ k = 3 /\ s[k] = "history"
             \/ k = 4 /\ s[k] = "monthly"
      BY <2>2, <2>4
    <2>7. TableScript(op, s)
      BY <1>3, <2>2, <2>3, <2>5, <2>6 DEF TableScript, Chain
    <2> QED BY <2>7 DEF s
  <1>4. CASE op = "monthly"
    <2>1. s = <<"tokens", "bonus", "history">>
      BY <1>4 DEF Tables, BonusScript
    <2>2. /\ s \in Seq(Steps) /\ Len(s) = 3
         /\ s[1] = "tokens" /\ s[2] = "bonus" /\ s[3] = "history"
      BY <2>1 DEF Steps
    <2> HIDE DEF s
    <2> QED BY <1>4, <2>2, Short DEF TableScript, Chain, Mints, s
  <1>5. CASE op = "burn"
    <2>3. CASE Enabled
      <3>1. s = <<"history", "use">>
        BY <1>5, <2>3 DEF Tables, BonusScript
      <3>2. /\ s \in Seq(Steps) /\ Len(s) = 2
           /\ s[1] = "history" /\ s[2] = "use"
        BY <3>1 DEF Steps
      <3> HIDE DEF s
      <3> QED BY <1>5, <2>3, <3>2, Short DEF TableScript, Chain, Mints, s
    <2>4. CASE ~Enabled
      <3>1. s = <<"use", "history">>
        BY <1>5, <2>4 DEF Tables, BonusScript
      <3>2. /\ s \in Seq(Steps) /\ Len(s) = 2
           /\ s[1] = "use" /\ s[2] = "history"
        BY <3>1 DEF Steps
      <3> HIDE DEF s
      <3> QED BY <1>5, <2>4, <3>2, Short DEF TableScript, Chain, Mints, s
    <2> QED BY <2>3, <2>4
  <1>6. CASE op = "cert"
    <2>3. CASE Enabled
      <3>1. s = <<"history", "use">>
        BY <1>6, <2>3 DEF Tables, BonusScript
      <3>2. /\ s \in Seq(Steps) /\ Len(s) = 2
           /\ s[1] = "history" /\ s[2] = "use"
        BY <3>1 DEF Steps
      <3> HIDE DEF s
      <3> QED BY <1>6, <2>3, <3>2, Short DEF TableScript, Chain, Mints, s
    <2>4. CASE ~Enabled
      <3>1. s = <<"use", "history", "pdf">>
        BY <1>6, <2>4 DEF Tables, BonusScript
      <3>2. /\ s \in Seq(Steps) /\ Len(s) = 3
           /\ s[1] = "use" /\ s[2] = "history" /\ s[3] = "pdf"
        BY <3>1 DEF Steps
      <3> HIDE DEF s
      <3>3. Len(s) \in 1 .. 4 /\ op \notin Mints
        BY <1>6, <3>2 DEF Mints
      <3>4. 1 \in 1 .. Len(s) /\ 2 \in 1 .. Len(s)
        BY <3>2
      <3>5. \A k \in 1 .. Len(s) :
               \/ k = 1 /\ s[k] = "use"
               \/ k = 2 /\ s[k] = "history"
               \/ k = 3 /\ s[k] = "pdf"
        BY <3>2, Short
      <3>6. TableScript(op, s)
        BY <1>6, <2>4, <3>2, <3>3, <3>4, <3>5 DEF TableScript, Chain
      <3> QED BY <3>6 DEF s
    <2> QED BY <2>3, <2>4
  <1>7. CASE op = "withdraw"
    <2>1. s = <<"delete">>
      BY <1>7 DEF Tables, BonusScript
    <2>2. /\ s \in Seq(Steps) /\ Len(s) = 1
         /\ s[1] = "delete"
      BY <2>1 DEF Steps
    <2> HIDE DEF s
    <2> QED BY <1>7, <2>2, Short DEF TableScript, Chain, Mints, s
  <1> QED BY OpCases, <1>1, <1>2, <1>3, <1>4, <1>5, <1>6, <1>7

\* A script is the tables', or the call to the chain and then the tables'.
LEMMA ScriptIs ==
    ASSUME NEW op \in Ops
    PROVE  LET t == Tables(op)
               s == Script(op)
               n == IF Enabled \/ op = "withdraw" THEN 2 ELSE 0
           IN /\ t \in Seq(Steps) /\ Len(t) \in 1 .. 4
              /\ s \in Seq(Steps) /\ Len(s) = n + Len(t)
              /\ n = 2 => s[1] = "send" /\ s[2] = "wait"
              /\ \A k \in n + 1 .. Len(s) : s[k] = t[k - n]
  <1> DEFINE t == Tables(op)
             head == <<"send", "wait">>
  <1>1. t \in Seq(Steps) /\ Len(t) \in 1 .. 4
    BY TablesFacts DEF TableScript
  <1>2. head \in Seq(Steps) /\ Len(head) = 2 /\ head[1] = "send" /\ head[2] = "wait"
    BY DEF Steps
  <1> HIDE DEF t, head
  <1>3. /\ Len(head \o t) = 2 + Len(t) /\ head \o t \in Seq(Steps)
        /\ \A i \in 1 .. 2 + Len(t) : (head \o t)[i] = IF i <= 2 THEN head[i] ELSE t[i - 2]
    <2>1. /\ head \o t \in Seq(Steps) /\ Len(head \o t) = Len(head) + Len(t)
          /\ \A i \in 1 .. Len(head) + Len(t) :
                (head \o t)[i] = IF i <= Len(head) THEN head[i] ELSE t[i - Len(head)]
      BY <1>1, <1>2, ConcatProperties, Zenon
    <2>2. Len(head) = 2
      BY <1>2
    <2> QED BY <2>1, <2>2, Zenon
  <1>4. CASE Enabled \/ op = "withdraw"
    <2>1. Script(op) = head \o t
      BY <1>4 DEF Script, head, t
    <2>2. (head \o t)[1] = "send" /\ (head \o t)[2] = "wait"
      BY <1>1, <1>2, <1>3
    <2>3. \A k \in 3 .. Len(head \o t) : (head \o t)[k] = t[k - 2]
      BY <1>1, <1>3
    <2> QED BY <1>1, <1>3, <1>4, <2>1, <2>2, <2>3 DEF t
  <1>5. CASE ~(Enabled \/ op = "withdraw")
    <2>1. Script(op) = t
      BY <1>5 DEF Script, t
    <2>2. \A k \in 0 + 1 .. Len(t) : t[k] = t[k - 0]
      BY <1>1
    <2> QED BY <1>1, <1>5, <2>1, <2>2 DEF t
  <1> QED BY <1>4, <1>5

ScriptShape(op, s) ==
    /\ s \in Seq(Steps) /\ Len(s) \in 1 .. 6
    /\ \A k \in 1 .. Len(s) :
          /\ s[k] \in Steps
          /\ \A m \in 1 .. Len(s) : s[m] = s[k] => m = k
          /\ s[k] \in Chain => 3 \in 1 .. Len(s) /\ s[1] = "send" /\ s[2] = "wait"
          /\ s[k] = "tokens" => op \in Mints
          /\ s[k] = "use" => op \in {"burn", "cert"}
          /\ s[k] = "checkin" => op = "checkin"
          /\ s[k] = "monthly" => op = "checkin" /\ k = Len(s)
          /\ s[k] = "bonus" => op = "monthly"
          /\ s[k] = "pdf" => op = "cert" /\ ~Enabled /\ k = Len(s)
          /\ s[k] = "delete" => op = "withdraw" /\ k = Len(s)
          /\ s[k] = "history" => op # "withdraw"
                          /\ (op \in {"signup", "web", "profile"} => k = Len(s))
    /\ op \in Mints => \E k \in 1 .. Len(s) : s[k] = "tokens"
    /\ op \in {"burn", "cert"} => \E k \in 1 .. Len(s) : s[k] = "use"
    /\ op # "withdraw" => \E k \in 1 .. Len(s) : s[k] = "history"
    /\ Enabled => s[1] = "send"
    /\ op = "withdraw" => Len(s) = 3

LEMMA ScriptFacts ==
    ASSUME NEW op \in Ops
    PROVE  ScriptShape(op, Script(op))
  <1> DEFINE t == Tables(op)
             s == Script(op)
             n == IF Enabled \/ op = "withdraw" THEN 2 ELSE 0
  <1>1. TableScript(op, t)
    BY TablesFacts
  <1>2. /\ s \in Seq(Steps) /\ Len(s) = n + Len(t)
        /\ n = 2 => s[1] = "send" /\ s[2] = "wait"
        /\ \A k \in n + 1 .. Len(s) : s[k] = t[k - n]
    BY ScriptIs
  <1>3. n \in {0, 2}
    OBVIOUS
  <1>9. op = "withdraw" => Len(t) = 1 /\ n = 2
    BY DEF Tables
  <1> HIDE DEF t, s, n
  <1>4. Len(t) \in 1 .. 4 /\ Len(s) \in 1 .. 6 /\ Len(s) = n + Len(t)
    <2>1. Len(t) \in 1 .. 4
      BY <1>1 DEF TableScript
    <2>2. Len(s) = n + Len(t)
      BY <1>2
    <2> DEFINE ls == Len(s)
               lt == Len(t)
    <2>3. lt \in 1 .. 4 /\ ls = n + lt
      BY <2>1, <2>2
    <2> HIDE DEF ls, lt
    <2>4. ls \in 1 .. 6
      BY <2>3, <1>3
    <2> QED BY <2>1, <2>2, <2>4 DEF ls
  <1>5. \A k \in 1 .. Len(s) : (k = 1 /\ n = 2) \/ (k = 2 /\ n = 2) \/ k \in n + 1 .. Len(s)
    BY <1>3, <1>4
  <1>6. \A k \in n + 1 .. Len(s) : k - n \in 1 .. Len(t) /\ s[k] = t[k - n] /\ (k - n = Len(t) => k = Len(s))
    BY <1>2, <1>3, <1>4
  <1>7. \A k \in 1 .. Len(t) : k + n \in n + 1 .. Len(s) /\ k + n \in 1 .. Len(s) /\ s[k + n] = t[k]
    <2> SUFFICES ASSUME NEW k \in 1 .. Len(t)
                 PROVE  k + n \in n + 1 .. Len(s) /\ k + n \in 1 .. Len(s) /\ s[k + n] = t[k]
      OBVIOUS
    <2>1. k + n \in n + 1 .. Len(s) /\ k + n \in 1 .. Len(s) /\ (k + n) - n = k
      BY <1>3, <1>4
    <2> QED BY <2>1, <1>2
  <1>8. ASSUME NEW k \in 1 .. Len(s)
        PROVE  /\ s[k] \in Steps
               /\ \A m \in 1 .. Len(s) : s[m] = s[k] => m = k
               /\ s[k] \in Chain => 3 \in 1 .. Len(s) /\ s[1] = "send" /\ s[2] = "wait"
               /\ s[k] = "tokens" => op \in Mints
               /\ s[k] = "use" => op \in {"burn", "cert"}
               /\ s[k] = "checkin" => op = "checkin"
               /\ s[k] = "monthly" => op = "checkin" /\ k = Len(s)
               /\ s[k] = "bonus" => op = "monthly"
               /\ s[k] = "pdf" => op = "cert" /\ ~Enabled /\ k = Len(s)
               /\ s[k] = "delete" => op = "withdraw" /\ k = Len(s)
               /\ s[k] = "history" => op # "withdraw"
                                      /\ (op \in {"signup", "web", "profile"} => k = Len(s))
    <2>1. s[k] \in Steps
      BY <1>2
    <2>2. CASE k \in n + 1 .. Len(s)
      <3> DEFINE i == k - n
      <3>1. i \in 1 .. Len(t) /\ s[k] = t[i] /\ (i = Len(t) => k = Len(s)) /\ i + n = k
        BY <2>2, <1>3, <1>4, <1>6
      <3> HIDE DEF i
      <3>2. \A m \in 1 .. Len(s) : s[m] = s[k] => m = k
        <4> SUFFICES ASSUME NEW m \in 1 .. Len(s), s[m] = s[k] PROVE m = k
          OBVIOUS
        <4>1. CASE m \in n + 1 .. Len(s)
          <5>1. m - n \in 1 .. Len(t) /\ s[m] = t[m - n]
            BY <4>1, <1>6
          <5>2. m - n = i
            BY <3>1, <5>1, <1>1 DEF TableScript
          <5> QED BY <5>2, <3>1, <1>3
        <4>2. CASE m \in {1, 2} /\ n = 2
          BY <4>2, <1>2, <3>1, <1>1 DEF TableScript, Chain
        <4> QED BY <4>1, <4>2, <1>5
      <3> QED BY <2>1, <3>1, <3>2, <1>1 DEF TableScript
    <2>3. CASE k \in {1, 2} /\ n = 2
      <3>1. s[1] = "send" /\ s[2] = "wait" /\ 3 \in 1 .. Len(s)
        <4>1. n = 2
          BY <2>3
        <4>2. 3 \in 1 .. Len(s)
          <5> DEFINE lt == Len(t)
          <5>1. 1 \in 1 .. lt
            <6>1. lt \in 1 .. 4
              BY <1>4
            <6> HIDE DEF lt
            <6> QED BY <6>1
          <5>2. 1 + n \in 1 .. Len(s)
            BY <5>1, <1>7
          <5> QED BY <4>1, <5>2
        <4> QED BY <4>1, <4>2, <1>2
      <3>2. \A m \in 1 .. Len(s) : s[m] = s[k] => m = k
        <4> SUFFICES ASSUME NEW m \in 1 .. Len(s), s[m] = s[k] PROVE m = k
          OBVIOUS
        <4>1. CASE m \in n + 1 .. Len(s)
          <5>1. m - n \in 1 .. Len(t) /\ s[m] = t[m - n]
            BY <4>1, <1>6
          <5> QED BY <5>1, <3>1, <2>3, <1>1 DEF TableScript, Chain
        <4>2. CASE m \in {1, 2} /\ n = 2
          BY <4>2, <2>3, <3>1
        <4> QED BY <4>1, <4>2, <1>5
      <3> QED BY <2>1, <2>3, <3>1, <3>2
    <2> QED BY <2>2, <2>3, <1>5
  <1>10. /\ op \in Mints => \E k \in 1 .. Len(s) : s[k] = "tokens"
         /\ op \in {"burn", "cert"} => \E k \in 1 .. Len(s) : s[k] = "use"
         /\ op # "withdraw" => \E k \in 1 .. Len(s) : s[k] = "history"
    BY <1>1, <1>7 DEF TableScript
  <1>11. Enabled => s[1] = "send"
    BY <1>2 DEF n
  <1>12. op = "withdraw" => Len(s) = 3
    <2>1. Len(t) = 1 /\ n = 2 => n + Len(t) = 3
      OBVIOUS
    <2> QED BY <2>1, <1>4, <1>9
  <1>13. ScriptShape(op, s)
    BY <1>2, <1>4, <1>8, <1>10, <1>11, <1>12 DEF ScriptShape
  <1> QED BY <1>13 DEF s

-----------------------------------------------------------------------------
(* Jobs.                                                                   *)

Busy == [op : Ops, worker : Workers, amount : Int, at : 1 .. 6, tx : Nat, ref : Int]

LEMMA JobIs == Job = {Idle} \cup Busy /\ Idle \notin Busy /\ Idle.op = "none"
  <1>1. Idle.op = "none"
    BY DEF Idle
  <1>2. "none" \notin Ops
    BY DEF Ops, Burns, Mints
  <1>3. Job = {Idle} \cup Busy
    BY DEF Job, Busy, Ops
  <1> HIDE DEF Idle
  <1>4. Idle \notin Busy
    BY <1>1, <1>2 DEF Busy
  <1> QED BY <1>1, <1>3, <1>4

LEMMA BusyFields ==
    ASSUME NEW j \in Busy
    PROVE  /\ j.op \in Ops /\ j.worker \in Workers /\ j.amount \in Int /\ j.at \in 1 .. 6
           /\ j.tx \in Nat /\ j.ref \in Int
           /\ j # Idle
  BY JobIs DEF Busy

\* The steps a job has before it, the current one included.
Ahead(j) == IF j = Idle THEN {} ELSE {Script(j.op)[k] : k \in j.at .. Len(Script(j.op))}

InScript(j) == j \in Busy /\ j.at \in 1 .. Len(Script(j.op))

LEMMA AheadIs ==
    ASSUME NEW j, InScript(j)
    PROVE  /\ Ahead(j) = {Script(j.op)[k] : k \in j.at .. Len(Script(j.op))}
           /\ ScriptShape(j.op, Script(j.op))
           /\ Len(Script(j.op)) \in Nat
  <1>1. j # Idle /\ j.op \in Ops
    BY BusyFields DEF InScript
  <1>2. ScriptShape(j.op, Script(j.op))
    BY <1>1, ScriptFacts
  <1>3. Len(Script(j.op)) \in Nat
    BY <1>2 DEF ScriptShape
  <1> QED BY <1>1, <1>2, <1>3 DEF Ahead

\* What is ahead follows from the kind of handler.
LEMMA AheadKind ==
    ASSUME NEW j, InScript(j), NEW s \in Ahead(j)
    PROVE  /\ s \in Steps
           /\ s = "tokens" => j.op \in Mints
           /\ s = "use" => j.op \in {"burn", "cert"}
           /\ s = "checkin" => j.op = "checkin"
           /\ s = "monthly" => j.op = "checkin"
           /\ s = "bonus" => j.op = "monthly"
           /\ s = "pdf" => j.op = "cert" /\ ~Enabled
           /\ s = "delete" => j.op = "withdraw"
           /\ s = "history" => j.op # "withdraw"
  <1> DEFINE S == Script(j.op)
             op == j.op
             at == j.at
  <1>1. PICK k \in at .. Len(S) : s = S[k]
    BY AheadIs
  <1>2. ScriptShape(op, S) /\ at \in 1 .. Len(S) /\ Len(S) \in Nat
    BY AheadIs DEF InScript
  <1> HIDE DEF S, op, at
  <1>3. k \in 1 .. Len(S)
    BY <1>1, <1>2
  <1>4. /\ s \in Steps
        /\ s = "tokens" => op \in Mints
        /\ s = "use" => op \in {"burn", "cert"}
        /\ s = "checkin" => op = "checkin"
        /\ s = "monthly" => op = "checkin"
        /\ s = "bonus" => op = "monthly"
        /\ s = "pdf" => op = "cert" /\ ~Enabled
        /\ s = "delete" => op = "withdraw"
        /\ s = "history" => op # "withdraw"
    BY <1>1, <1>2, <1>3 DEF ScriptShape
  <1> QED BY <1>4 DEF op

\* The current step.
LEMMA AheadNow ==
    ASSUME NEW j, InScript(j)
    PROVE  LET s == Script(j.op)[j.at] IN
           /\ s \in Ahead(j)
           /\ j.at = Len(Script(j.op)) => Ahead(j) = {s}
           /\ s \in {"monthly", "pdf", "delete"} => j.at = Len(Script(j.op))
           /\ s = "history" /\ j.op \in {"signup", "web", "profile"} => j.at = Len(Script(j.op))
           /\ s = "send" => j.at = 1
           /\ s = "wait" => j.at = 2 /\ "send" \notin Ahead(j)
           /\ s \notin Chain => "send" \notin Ahead(j) /\ "wait" \notin Ahead(j)
  <1> DEFINE S == Script(j.op)
             op == j.op
             at == j.at
             s == S[at]
             A == Ahead(j)
  <1>1. A = {S[k] : k \in at .. Len(S)}
    BY AheadIs
  <1>2. ScriptShape(op, S) /\ at \in 1 .. Len(S) /\ Len(S) \in Nat
    BY AheadIs DEF InScript
  <1> HIDE DEF S, op, at, A
  <1>3. /\ s \in A
        /\ at = Len(S) => A = {s}
    BY <1>1, <1>2
  <1>4. /\ s \in {"monthly", "pdf", "delete"} => at = Len(S)
        /\ s = "history" /\ op \in {"signup", "web", "profile"} => at = Len(S)
    BY <1>2 DEF ScriptShape
  <1>5. \A k \in 1 .. Len(S) : S[k] \in Chain => S[1] = "send" /\ S[2] = "wait" /\ 3 \in 1 .. Len(S)
    BY <1>2 DEF ScriptShape
  <1>6. \A k \in 1 .. Len(S) : /\ S[k] = "send" => k = 1
                               /\ S[k] = "wait" => k = 2
    <2> TAKE k \in 1 .. Len(S)
    <2>1. S[k] \in Chain => 1 \in 1 .. Len(S) /\ 2 \in 1 .. Len(S)
      BY <1>2, <1>5
    <2>2. \A m \in 1 .. Len(S) : S[m] = S[k] => m = k
      BY <1>2 DEF ScriptShape
    <2> QED BY <2>1, <2>2, <1>5 DEF Chain
  <1>7. s = "send" => at = 1
    BY <1>2, <1>6
  <1>8. s = "wait" => at = 2 /\ "send" \notin A
    BY <1>1, <1>2, <1>6
  <1>9. s \notin Chain => "send" \notin A /\ "wait" \notin A
    <2> SUFFICES ASSUME s \notin Chain, NEW k \in at .. Len(S), S[k] \in Chain PROVE FALSE
      BY <1>1 DEF Chain
    <2>1. k \in 1 .. Len(S) /\ at <= k
      BY <1>2
    <2>2. S[1] = "send" /\ S[2] = "wait" /\ k \in {1, 2}
      BY <1>5, <1>6, <2>1 DEF Chain
    <2>3. at \in {1, 2}
      BY <1>2, <2>1, <2>2
    <2> QED BY <2>2, <2>3 DEF Chain
  <1> QED BY <1>3, <1>4, <1>7, <1>8, <1>9 DEF S, op, at, A

\* What a handler that begins has before it.
LEMMA AheadFirst ==
    ASSUME NEW j, InScript(j), j.at = 1
    PROVE  /\ j.op \in Mints => "tokens" \in Ahead(j)
           /\ j.op \in {"burn", "cert"} => "use" \in Ahead(j)
           /\ j.op # "withdraw" => "history" \in Ahead(j)
           /\ Enabled => "send" \in Ahead(j)
  BY AheadIs DEF ScriptShape

\* The job is k after s: one step further on, or past the call to the chain.
LEMMA AheadNext ==
    ASSUME NEW j, InScript(j), NEW k \in Busy, k.op = j.op
    PROVE  LET s == Script(j.op)[j.at] IN
           /\ j.at # Len(Script(j.op)) /\ k.at = j.at + 1
                 => InScript(k) /\ Ahead(k) = Ahead(j) \ {s}
           /\ s \in Chain /\ k.at = 3 => InScript(k) /\ Ahead(k) = Ahead(j) \ Chain
  <1> DEFINE S == Script(j.op)
             at == j.at
             s == S[at]
             A == Ahead(j)
  <1>1. A = {S[i] : i \in at .. Len(S)}
    BY AheadIs
  <1>2. /\ at \in 1 .. Len(S) /\ Len(S) \in Nat
        /\ \A i, m \in 1 .. Len(S) : S[i] = S[m] => i = m
        /\ \A i \in 1 .. Len(S) : S[i] \in Chain => S[1] = "send" /\ S[2] = "wait" /\ 3 \in 1 .. Len(S)
    BY AheadIs DEF InScript, ScriptShape
  <1>3. k # Idle /\ Ahead(k) = {S[i] : i \in k.at .. Len(S)}
    BY BusyFields DEF Ahead
  <1>4. InScript(k) <=> k.at \in 1 .. Len(S)
    BY DEF InScript
  <1> HIDE DEF S, at, A
  <1>5. ASSUME at # Len(S), k.at = at + 1
        PROVE  InScript(k) /\ Ahead(k) = A \ {s}
    <2>1. k.at \in 1 .. Len(S)
      BY <1>2, <1>5
    <2>2. ASSUME NEW x \in Ahead(k) PROVE x \in A \ {s}
      <3>1. PICK i \in k.at .. Len(S) : x = S[i]
        BY <1>3
      <3>2. i \in at .. Len(S) /\ i # at /\ i \in 1 .. Len(S)
        BY <1>2, <1>5
      <3> QED BY <3>1, <3>2, <1>1, <1>2
    <2>3. ASSUME NEW x \in A \ {s} PROVE x \in Ahead(k)
      <3>1. PICK i \in at .. Len(S) : x = S[i]
        BY <1>1
      <3>2. i \in k.at .. Len(S)
        BY <1>2, <1>5, <3>1
      <3> QED BY <3>1, <3>2, <1>3
    <2> QED BY <1>4, <2>1, <2>2, <2>3
  <1>6. ASSUME s \in Chain, k.at = 3
        PROVE  InScript(k) /\ Ahead(k) = A \ Chain
    <2>1. k.at \in 1 .. Len(S) /\ S[1] = "send" /\ S[2] = "wait" /\ 3 <= Len(S)
      BY <1>2, <1>6
    <2>2. \A i \in 1 .. Len(S) : S[i] \in Chain <=> i \in {1, 2}
      BY <1>2, <2>1 DEF Chain
    <2>3. at \in {1, 2}
      BY <1>2, <1>6, <2>2
    <2>4. ASSUME NEW x \in Ahead(k) PROVE x \in A \ Chain
      <3>1. PICK i \in 3 .. Len(S) : x = S[i]
        BY <1>3, <1>6
      <3>2. i \in at .. Len(S) /\ i \notin {1, 2} /\ i \in 1 .. Len(S)
        BY <1>2, <2>3
      <3> QED BY <3>1, <3>2, <1>1, <2>2
    <2>5. ASSUME NEW x \in A \ Chain PROVE x \in Ahead(k)
      <3>1. PICK i \in at .. Len(S) : x = S[i]
        BY <1>1
      <3>2. i \in 1 .. Len(S)
        BY <1>2
      <3>3. i \notin {1, 2}
        BY <3>1, <3>2, <2>2
      <3>4. i \in 3 .. Len(S)
        BY <1>2, <3>2, <3>3
      <3> QED BY <3>1, <3>4, <1>3, <1>6
    <2> QED BY <1>4, <2>1, <2>4, <2>5
  <1> QED BY <1>5, <1>6 DEF S, at, A

-----------------------------------------------------------------------------
(* How jobs go on.                                                         *)

\* Only what is minted or burned on request can be negative, and with the
\* token contract it does not get past the building of the transaction.
Payable(j) ==
    \/ j.amount \in Nat
    \/ /\ j.op \in {"mint", "burn"} /\ j.tx = 0
       /\ Enabled => "send" \in Ahead(j)

\* Every job is at a step of its script; the signup threads pay signup
\* bonuses, everything else is done by the API.
JobInv ==
    \A a \in Actors : job[a] # Idle =>
       LET j == job[a] IN
       /\ InScript(j) /\ Payable(j)
       /\ a \in Workers => j.op = "signup" /\ j.worker = a
       /\ member[j.worker] # "none"
       /\ j.op = "checkin" => j.ref \in 1 .. today
       /\ j.op = "monthly" => j.ref \in Nat

Typed == TypeOK /\ JobInv

LEMMA Apart == /\ "api" \in Actors /\ Workers \subseteq Actors /\ "api" \notin Workers
               /\ \A a \in Actors : a = "api" \/ a \in Workers
  BY CreditsAssumption DEF Actors

LEMMA UpToSix ==
    ASSUME NEW n \in 1 .. 6
    PROVE  /\ n \in Nat /\ 1 \in 1 .. n
           /\ \A k \in 1 .. n : k \in 1 .. 6 /\ (k # n => k + 1 \in 1 .. 6)
           /\ 3 \in 1 .. n => n # 1
  OBVIOUS

\* The same handler as j, after the steps S, with transaction n.
Onward(j, k, S, n) ==
    /\ InScript(k) /\ Payable(k)
    /\ k.op = j.op /\ k.worker = j.worker /\ k.amount = j.amount /\ k.ref = j.ref
    /\ k.tx = n
    /\ Ahead(k) = Ahead(j) \ S

Others(a) == job' \in [Actors -> Job] /\ \A b \in Actors \ {a} : job'[b] = job[b]

LEMMA StepIs ==
    ASSUME Typed, NEW a \in Actors, NEW s, Step(a, s)
    PROVE  /\ job[a] # Idle /\ InScript(job[a]) /\ job[a] \in Busy
           /\ s \in Ahead(job[a]) /\ s \in Steps
           /\ s \notin BonusSteps => a = "api"
  <1>1. /\ job[a] # Idle /\ InScript(job[a]) /\ job[a] \in Busy
        /\ s \in Ahead(job[a])
    BY AheadNow DEF Typed, JobInv, Step, InScript
  <1>2. s \in Steps
    BY <1>1, AheadKind
  <1>3. s \notin BonusSteps => a = "api"
    <2> SUFFICES ASSUME a # "api" PROVE s \in BonusSteps
      OBVIOUS
    <2>1. job[a].op = "signup"
      BY <1>1, Apart DEF Typed, JobInv
    <2> QED BY <2>1, <1>1, AheadKind DEF Steps, BonusSteps
  <1> QED BY <1>1, <1>2, <1>3

\* What a step after the sending pays.
LEMMA PastSend ==
    ASSUME Typed, NEW a \in Actors, NEW s, s # "send", Step(a, s)
    PROVE  LET j == job[a] IN
           \/ j.amount \in Nat
           \/ j.op \in {"mint", "burn"} /\ j.tx = 0 /\ ~Enabled
  <1>1. /\ job[a] # Idle /\ InScript(job[a]) /\ s = Script(job[a].op)[job[a].at]
        /\ Payable(job[a])
    BY StepIs DEF Step, Typed, JobInv
  <1>2. "send" \notin Ahead(job[a])
    BY <1>1, AheadNow DEF Chain
  <1> QED BY <1>1, <1>2 DEF Payable

LEMMA FinishIs ==
    ASSUME Typed, NEW a \in Actors, Finish(a)
    PROVE  Others(a) /\ job'[a] = Idle
  <1>1. job \in [Actors -> Job] /\ Idle \in Job
    BY JobIs DEF Typed, TypeOK
  <1> HIDE DEF Idle
  <1> QED BY <1>1 DEF Finish, Others

\* Actor a is given the job r.
LEMMA GivenIs ==
    ASSUME Typed, NEW a \in Actors, NEW r \in Busy, job' = [job EXCEPT ![a] = r]
    PROVE  Others(a) /\ job'[a] = r
  <1>1. job \in [Actors -> Job] /\ r \in Job
    BY JobIs DEF Typed, TypeOK
  <1> QED BY <1>1 DEF Others

LEMMA AdvanceIs ==
    ASSUME Typed, NEW a \in Actors, NEW s, s # "send", Step(a, s), Advance(a)
    PROVE  /\ Others(a)
           /\ \/ job'[a] = Idle /\ Ahead(job[a]) = {s}
              \/ Onward(job[a], job'[a], {s}, job[a].tx)
  <1> DEFINE j == job[a]
  <1>1. j # Idle /\ InScript(j) /\ j \in Busy /\ s = Script(j.op)[j.at]
    BY StepIs DEF Step
  <1>2. CASE j.at = Len(Script(j.op))
    <2>1. Finish(a)
      BY <1>2 DEF Advance
    <2> QED BY <1>1, <1>2, <2>1, FinishIs, AheadNow
  <1>3. CASE j.at # Len(Script(j.op))
    <2> DEFINE k == j.at + 1
               r == [j EXCEPT !.at = k]
    <2>1. job' = [job EXCEPT ![a] = r]
      BY <1>3 DEF Advance
    <2>2. k \in 1 .. 6
      <3>1. j.at \in 1 .. Len(Script(j.op)) /\ Len(Script(j.op)) \in 1 .. 6
        BY <1>1, AheadIs DEF InScript, ScriptShape
      <3> QED BY <3>1, <1>3, UpToSix
    <2>3. r \in Busy /\ r.op = j.op /\ r.worker = j.worker /\ r.amount = j.amount
          /\ r.ref = j.ref /\ r.tx = j.tx /\ r.at = k
      <3> HIDE DEF j, k
      <3> QED BY <1>1, <2>2 DEF Busy
    <2> HIDE DEF r, j
    <2>4. InScript(r) /\ Ahead(r) = Ahead(j) \ {s}
      BY <1>1, <1>3, <2>3, AheadNext
    <2>5. Others(a) /\ job'[a] = r
      BY <2>1, <2>3, GivenIs
    <2>6. Payable(r)
      BY <1>1, <2>3, PastSend DEF j, Payable
    <2> QED BY <2>3, <2>4, <2>5, <2>6 DEF Onward, j
  <1> QED BY <1>2, <1>3

LEMMA FailureIs ==
    ASSUME Typed, NEW a \in Actors, NEW s \in Chain, Step(a, s), OnFailure(a)
    PROVE  /\ Others(a)
           /\ \/ job'[a] = Idle /\ job[a].op \notin {"signup", "withdraw"}
              \/ /\ Onward(job[a], job'[a], Chain, 0)
                 /\ job[a].op \in {"signup", "withdraw"}
  <1> DEFINE j == job[a]
  <1>1. j # Idle /\ InScript(j) /\ j \in Busy /\ s = Script(j.op)[j.at]
    BY StepIs DEF Step
  <1>2. CASE j.op \notin {"signup", "withdraw"}
    <2>1. Finish(a)
      BY <1>2 DEF OnFailure
    <2> QED BY <1>2, <2>1, FinishIs
  <1>3. CASE j.op \in {"signup", "withdraw"}
    <2> DEFINE k == 3
               n == 0
               r == [j EXCEPT !.at = k, !.tx = n]
    <2>1. job' = [job EXCEPT ![a] = r]
      BY <1>3 DEF OnFailure
    <2>3. r \in Busy /\ r.op = j.op /\ r.worker = j.worker /\ r.amount = j.amount
          /\ r.ref = j.ref /\ r.tx = 0 /\ r.at = 3
      <3>1. j \in Busy /\ k \in 1 .. 6 /\ n \in Nat /\ k = 3 /\ n = 0
        BY <1>1
      <3> HIDE DEF j, k, n
      <3> QED BY <3>1 DEF Busy
    <2> HIDE DEF r, j
    <2>4. InScript(r) /\ Ahead(r) = Ahead(j) \ Chain
      BY <1>1, <2>3, AheadNext
    <2>5. Others(a) /\ job'[a] = r
      BY <2>1, <2>3, GivenIs
    <2>6. Payable(r)
      <3>1. Payable(j)
        BY <1>1 DEF j, Typed, JobInv
      <3> QED BY <1>3, <2>3, <3>1 DEF Payable
    <2> QED BY <1>3, <2>3, <2>4, <2>5, <2>6 DEF Onward, j
  <1> QED BY <1>2, <1>3

\* A transaction of the token contract is sent and waited for.
Sends(a) ==
    /\ job[a].amount >= 0
    /\ txs' = Append([i \in DOMAIN txs |->
                          IF txs[i].state = "pending"
                          THEN [txs[i] EXCEPT !.state = "dropped"]
                          ELSE txs[i]],
                     [owner |-> a, op |-> job[a].op, worker |-> job[a].worker,
                      amount |-> job[a].amount, ref |-> job[a].ref,
                      state |-> "pending"])
    /\ job' = [job EXCEPT ![a].at = @ + 1, ![a].tx = Len(txs) + 1]

LEMMA SendsIs ==
    ASSUME Typed, NEW a \in Actors, Step(a, "send"), Sends(a)
    PROVE  /\ Others(a)
           /\ Onward(job[a], job'[a], {"send"}, Len(txs) + 1)
           /\ "wait" \in Ahead(job'[a])
  <1> DEFINE j == job[a]
             k == j.at + 1
             n == Len(txs) + 1
             r == [j EXCEPT !.at = k, !.tx = n]
  <1>1. j # Idle /\ InScript(j) /\ j \in Busy /\ "send" = Script(j.op)[j.at]
    BY StepIs DEF Step
  <1>2. job' = [job EXCEPT ![a] = r]
    BY DEF Sends
  <1>3. j.at = 1 /\ j.at # Len(Script(j.op))
    <2>1. j.at = 1
      BY <1>1, AheadNow
    <2>2. 3 \in 1 .. Len(Script(j.op)) /\ Len(Script(j.op)) \in 1 .. 6
      BY <1>1, AheadIs DEF InScript, ScriptShape, Chain
    <2> QED BY <2>1, <2>2, UpToSix
  <1>4. n \in Nat
    BY LenProperties DEF Typed, TypeOK
  <1>5. r \in Busy /\ r.op = j.op /\ r.worker = j.worker /\ r.amount = j.amount
        /\ r.ref = j.ref /\ r.tx = n /\ r.at = k /\ k = 2
    <2>1. k = 2
      BY <1>3
    <2>2. j \in Busy /\ k \in 1 .. 6
      BY <1>1, <2>1
    <2> HIDE DEF j, k, n
    <2> QED BY <1>4, <2>1, <2>2 DEF Busy
  <1> HIDE DEF r, j
  <1>6. InScript(r) /\ Ahead(r) = Ahead(j) \ {"send"}
    BY <1>1, <1>3, <1>5, AheadNext
  <1>7. Others(a) /\ job'[a] = r
    BY <1>2, <1>5, GivenIs
  <1>8. "wait" \in Ahead(j)
    BY <1>1, AheadIs, <1>3 DEF InScript, ScriptShape, Chain
  <1>9. Payable(r)
    BY <1>1, <1>5, BusyFields DEF Payable, Sends, j
  <1> QED BY <1>5, <1>6, <1>7, <1>8, <1>9 DEF Onward, j

\* A handler begins, for an actor with nothing to do, at step k of its script.
LEMMA BeginIs ==
    ASSUME Typed, NEW a \in Actors, NEW op \in Ops, NEW w \in Workers, NEW n \in Int,
           NEW ref \in Int, NEW k \in 1 .. Len(Script(op)), BeginAt(a, op, w, n, ref, k)
    PROVE  LET r == job'[a] IN
           /\ Others(a)
           /\ job[a] = Idle
           /\ InScript(r)
           /\ r.op = op /\ r.worker = w /\ r.amount = n /\ r.ref = ref /\ r.at = k /\ r.tx = 0
  <1> DEFINE r == [op |-> op, worker |-> w, amount |-> n, at |-> k, tx |-> 0, ref |-> ref]
  <1>1. job' = [job EXCEPT ![a] = r] /\ job[a] = Idle
    BY DEF BeginAt
  <1>2. k \in 1 .. 6
    <2>1. Len(Script(op)) \in 1 .. 6
      BY ScriptFacts DEF ScriptShape
    <2> QED BY <2>1, UpToSix
  <1>3. r \in Busy /\ r.op = op /\ r.worker = w /\ r.amount = n /\ r.ref = ref /\ r.at = k /\ r.tx = 0
    BY <1>2 DEF Busy
  <1> HIDE DEF r
  <1>4. InScript(r)
    BY <1>3 DEF InScript
  <1>5. Others(a) /\ job'[a] = r
    BY <1>1, <1>3, GivenIs
  <1> QED BY <1>1, <1>3, <1>4, <1>5

\* Every script has a first step.
LEMMA FirstStep == \A op \in Ops : 1 \in 1 .. Len(Script(op))
  <1> TAKE op \in Ops
  <1>1. Len(Script(op)) \in 1 .. 6
    BY ScriptFacts DEF ScriptShape
  <1> QED BY <1>1, UpToSix

\* A handler that goes on or ends leaves the jobs as they should be.
LEMMA GoesOn ==
    ASSUME Typed, NEW a \in Actors, Others(a),
           job'[a] = Idle \/ (job[a] # Idle /\ \E S, n : Onward(job[a], job'[a], S, n)),
           \A w \in Workers : member[w] # "none" => member'[w] # "none",
           today' = today
    PROVE  JobInv'
  <1> SUFFICES ASSUME NEW b \in Actors, job'[b] # Idle
               PROVE  LET j == job'[b] IN
                      /\ InScript(j) /\ Payable(j)
                      /\ b \in Workers => j.op = "signup" /\ j.worker = b
                      /\ member'[j.worker] # "none"
                      /\ j.op = "checkin" => j.ref \in 1 .. today'
                      /\ j.op = "monthly" => j.ref \in Nat
    BY DEF JobInv, InScript
  <1>1. CASE b # a
    <2>1. job'[b] = job[b] /\ InScript(job[b]) /\ job[b].worker \in Workers
      BY <1>1, BusyFields DEF Others, Typed, JobInv, InScript
    <2> QED BY <2>1 DEF Typed, JobInv
  <1>2. CASE b = a
    <2>1. PICK S, n : Onward(job[a], job'[a], S, n)
      BY <1>2
    <2>2. job[a] # Idle /\ job[a].worker \in Workers
      BY <1>2, BusyFields DEF Typed, JobInv, InScript
    <2> QED BY <1>2, <2>1, <2>2 DEF Onward, Typed, JobInv
  <1> QED BY <1>1, <1>2

-----------------------------------------------------------------------------
(* Days and months.                                                        *)

LEMMA MonthBounds ==
    ASSUME NEW d \in Int
    PROVE  /\ MonthOf(d) \in Int
           /\ d >= 1 => MonthOf(d) \in Nat
           /\ MonthOf(d) * MonthDays + 1 <= d
           /\ d <= MonthOf(d) * MonthDays + MonthDays
  <1> DEFINE m == MonthOf(d)
  <1>1. MonthDays \in Nat \ {0}
    BY CreditsAssumption
  <1>2. m \in Int /\ (d >= 1 => m \in Nat)
    BY <1>1 DEF MonthOf
  <1>3. m * MonthDays <= d - 1 /\ d - 1 < m * MonthDays + MonthDays
    BY <1>1 DEF MonthOf
  <1>4. m * MonthDays \in Int
    BY <1>1, <1>2
  <1> HIDE DEF m
  <1>5. m * MonthDays + 1 <= d /\ d <= m * MonthDays + MonthDays
    <2> DEFINE p == m * MonthDays
    <2>1. p \in Int /\ p <= d - 1 /\ d - 1 < p + MonthDays
      BY <1>3, <1>4
    <2> HIDE DEF p
    <2>2. p + 1 <= d /\ d <= p + MonthDays
      BY <1>1, <2>1
    <2> QED BY <2>2 DEF p
  <1> QED BY <1>2, <1>5 DEF m

LEMMA MaxDayIs == MaxDay \in Nat /\ Days \subseteq Nat /\ IsFiniteSet(Days)
  <1>1. MaxDay \in Nat
    BY CreditsAssumption
  <1>2. IsFiniteSet(Days)
    BY <1>1, FS_Interval DEF Days
  <1> QED BY <1>1, <1>2 DEF Days

LEMMA DatesAreDays ==
    ASSUME TypeOK, NEW w \in Workers
    PROVE  Dates(w) \subseteq Days
  BY DEF TypeOK, Dates, CheckinRow

LEMMA StreakNat ==
    ASSUME NEW dates \in SUBSET Days, NEW day
    PROVE  StreakDays(dates, day) \in Nat /\ Reward(StreakDays(dates, day)) \in Nat
  <1> DEFINE reached == {d \in dates : /\ d <= day
                                       /\ \A e \in d + 1 .. day : e \in dates \/ e - 1 \in dates}
  <1>1. Cardinality(reached) \in Nat
    <2>1. reached \subseteq Days
      OBVIOUS
    <2> HIDE DEF reached
    <2> QED BY <2>1, MaxDayIs, FS_Subset, FS_CardinalityType
  <1>2. StreakDays(dates, day) = IF Cardinality(reached) > 30 THEN 30 ELSE Cardinality(reached)
    BY DEF StreakDays
  <1> HIDE DEF reached
  <1>3. StreakDays(dates, day) \in Nat
    BY <1>1, <1>2
  <1>4. Week \in Nat \ {0}
    BY CreditsAssumption
  <1> QED BY <1>3, <1>4 DEF Reward

LEMMA AttendedMonth ==
    ASSUME TypeOK, NEW w \in Workers, NEW m \in Int, PerfectAttendance(w, m)
    PROVE  /\ m \in Nat
           /\ \A d \in Days : MonthOf(d) = m => d \in Dates(w)
  <1> DEFINE D == {d \in Dates(w) : MonthOf(d) = m}
             M == m * MonthDays
             I == M + 1 .. M + MonthDays
  <1>1. MonthDays \in Nat \ {0} /\ M \in Int
    BY CreditsAssumption
  <1>2. ASSUME NEW d \in Days, MonthOf(d) = m
        PROVE  d \in I /\ m \in Nat
    BY <1>1, <1>2, MonthBounds DEF Days
  <1>3. D \subseteq I
    BY <1>2, DatesAreDays
  <1>4. IsFiniteSet(I) /\ Cardinality(I) = MonthDays
    <2> HIDE DEF M
    <2>1. M + 1 \in Int /\ M + MonthDays \in Int /\ M + 1 <= M + MonthDays
          /\ (M + MonthDays) - (M + 1) + 1 = MonthDays
      BY <1>1
    <2> QED BY <2>1, FS_Interval
  <1>5. Cardinality(D) >= MonthDays
    BY DEF PerfectAttendance
  <1> HIDE DEF D, I
  <1>6. IsFiniteSet(D) /\ Cardinality(D) <= Cardinality(I)
        /\ (Cardinality(D) = Cardinality(I) => D = I)
    BY <1>3, <1>4, FS_Subset
  <1>7. D = I
    <2>1. Cardinality(D) \in Nat
      BY <1>6, FS_CardinalityType
    <2> QED BY <1>1, <1>4, <1>5, <1>6, <2>1
  <1>8. \A d \in Days : MonthOf(d) = m => d \in Dates(w)
    BY <1>2, <1>7 DEF D
  <1>9. m \in Nat
    <2>1. D # {}
      <3>1. Cardinality({}) = 0
        BY FS_EmptySet
      <3> QED BY <1>1, <1>4, <1>7, <3>1
    <2> QED BY <2>1, <1>2, DatesAreDays DEF D
  <1> QED BY <1>8, <1>9

-----------------------------------------------------------------------------
(* Types.                                                                  *)

LEMMA InitTyped == Init => Typed
  <1> SUFFICES ASSUME Init PROVE Typed
    OBVIOUS
  <1>1. \A w \in Workers : history[w] \in Seq(HistoryRow)
    BY EmptySeq DEF Init
  <1>2. txs \in Seq(Tx)
    BY EmptySeq DEF Init
  <1>3. job \in [Actors -> Job] /\ \A a \in Actors : job[a] = Idle
    BY DEF Init, Job
  <1>4. today \in Days
    BY CreditsAssumption DEF Init, Days
  <1>5. JobInv
    BY <1>3 DEF JobInv
  <1>6. /\ history \in [Workers -> Seq(HistoryRow)]
        /\ member \in [Workers -> {"none", "row", "gone"}]
        /\ tokens \in [Workers -> Int] /\ complete \in [Workers -> BOOLEAN]
        /\ applied \subseteq Workers
    BY <1>1 DEF Init
  <1>7. /\ checkins \in [Workers -> SUBSET CheckinRow]
        /\ bonuses \in [Workers -> SUBSET Nat]
        /\ balance \in [Workers -> Nat]
        /\ uploads \in [Workers -> Nat]
        /\ requests \in Nat /\ crashes \in Nat
        /\ lost \in [Workers -> Nat]
        /\ broken \subseteq Workers
    BY DEF Init
  <1>8. TypeOK
    BY <1>2, <1>3, <1>4, <1>6, <1>7 DEF TypeOK
  <1> QED BY <1>5, <1>8 DEF Typed

\* The workers of a row that exists, or existed, stay known.
LEMMA KeepsMembers ==
    ASSUME Typed, UNCHANGED member
    PROVE  \A w \in Workers : member[w] # "none" => member'[w] # "none"
  OBVIOUS

LEMMA SendTyped ==
    ASSUME Typed, NEW a \in Actors, Send(a)
    PROVE  Typed'
  <1>1. Step(a, "send") /\ job[a] # Idle /\ job[a] \in Busy
    BY StepIs DEF Send
  <1>2. UNCHANGED <<person, tokens, rows, balance, ghosts, clock>>
    BY DEF Send
  <1>3. CASE OnFailure(a) /\ UNCHANGED txs
    <2>1. /\ Others(a)
          /\ \/ job'[a] = Idle
             \/ Onward(job[a], job'[a], Chain, 0)
      BY <1>1, <1>3, FailureIs DEF Chain
    <2>2. JobInv'
      BY <1>1, <1>2, <2>1, GoesOn DEF person, clock
    <2> QED BY <1>2, <1>3, <2>1, <2>2
           DEF Typed, TypeOK, Others, person, rows, ghosts, clock
  <1>4. CASE Sends(a)
    <2>1. Others(a) /\ Onward(job[a], job'[a], {"send"}, Len(txs) + 1)
      BY <1>1, <1>4, SendsIs
    <2>2. JobInv'
      BY <1>1, <1>2, <2>1, GoesOn DEF person, clock
    <2> DEFINE old == [i \in DOMAIN txs |->
                          IF txs[i].state = "pending"
                          THEN [txs[i] EXCEPT !.state = "dropped"]
                          ELSE txs[i]]
               new == [owner |-> a, op |-> job[a].op, worker |-> job[a].worker,
                       amount |-> job[a].amount, ref |-> job[a].ref, state |-> "pending"]
    <2>3. txs' = Append(old, new)
      BY <1>4 DEF Sends
    <2>4. old \in Seq(Tx)
      <3>1. txs \in Seq(Tx) /\ DOMAIN txs = 1 .. Len(txs) /\ Len(txs) \in Nat
            /\ \A i \in 1 .. Len(txs) : txs[i] \in Tx
        BY LenProperties, ElementOfSeq DEF Typed, TypeOK
      <3>2. \A t \in Tx : [t EXCEPT !.state = "dropped"] \in Tx
        BY DEF Tx
      <3>3. \A i \in 1 .. Len(txs) : old[i] \in Tx
        BY <3>1, <3>2
      <3> QED BY <3>1, <3>3, IsASeq
    <2>5. new \in Tx
      <3>1. job[a].amount \in Nat
        BY <1>1, <1>4, BusyFields DEF Sends
      <3> QED BY <1>1, <3>1, BusyFields DEF Tx, Ops
    <2> HIDE DEF old, new
    <2>6. txs' \in Seq(Tx)
      BY <2>3, <2>4, <2>5, AppendProperties
    <2> QED BY <1>2, <2>1, <2>2, <2>6
           DEF Typed, TypeOK, Others, person, rows, ghosts, clock
  <1> QED BY <1>3, <1>4 DEF Send, Sends

LEMMA ReceiptTyped ==
    ASSUME Typed, NEW a \in Actors, Receipt(a)
    PROVE  Typed'
  <1>1. Step(a, "wait") /\ job[a] # Idle
    BY StepIs DEF Receipt
  <1>2. UNCHANGED <<person, tokens, rows, token, ghosts, clock>>
    BY DEF Receipt
  <1>3. Others(a) /\ (job'[a] = Idle \/ \E S, n : Onward(job[a], job'[a], S, n))
    BY <1>1, AdvanceIs, FailureIs DEF Receipt, Chain
  <1>4. JobInv'
    BY <1>1, <1>2, <1>3, GoesOn DEF person, clock
  <1> QED BY <1>2, <1>3, <1>4 DEF Typed, TypeOK, Others, person, rows, token, ghosts, clock

LEMMA OwedNat ==
    ASSUME Typed, NEW a \in Actors, NEW w
    PROVE  Owed(a, w) \in Nat
  <1>1. job[a] # Idle /\ job[a].tx # 0 => job[a].amount \in Nat
    BY DEF Payable, Typed, JobInv
  <1> QED BY <1>1 DEF Owed, Minted

LEMMA TimeoutTyped ==
    ASSUME Typed, NEW a \in Actors, Timeout(a)
    PROVE  Typed'
  <1> DEFINE w == job[a].worker
             n == Owed(a, w)
  <1>1. Step(a, "wait") /\ job[a] # Idle /\ w \in Workers
    BY StepIs, BusyFields DEF Timeout
  <1>2. UNCHANGED <<person, tokens, rows, token, crashes, broken, clock>>
        /\ lost' = [lost EXCEPT ![w] = @ + n]
    BY DEF Timeout
  <1>3. Others(a) /\ (job'[a] = Idle \/ \E S, m : Onward(job[a], job'[a], S, m))
    BY <1>1, FailureIs DEF Timeout, Chain
  <1>4. JobInv'
    BY <1>1, <1>2, <1>3, GoesOn DEF person, clock
  <1>5. n \in Nat
    BY OwedNat
  <1> HIDE DEF n, w
  <1>6. lost' \in [Workers -> Nat]
    BY <1>1, <1>2, <1>5 DEF Typed, TypeOK
  <1> QED BY <1>2, <1>3, <1>4, <1>6 DEF Typed, TypeOK, Others, person, rows, token, clock

\* Steps that only write to tables of a worker.
LEMMA TablesTyped ==
    ASSUME Typed, NEW a \in Actors, NEW s, s # "send", Step(a, s), Advance(a) \/ Finish(a),
           UNCHANGED <<person, token, crashes, lost, clock>>,
           tokens' \in [Workers -> Int],
           history' \in [Workers -> Seq(HistoryRow)],
           checkins' \in [Workers -> SUBSET CheckinRow],
           bonuses' \in [Workers -> SUBSET Nat],
           broken' \subseteq Workers
    PROVE  Typed'
  <1>1. job[a] # Idle
    BY StepIs
  <1>2. Others(a) /\ (job'[a] = Idle \/ \E S, n : Onward(job[a], job'[a], S, n))
    BY AdvanceIs, FinishIs
  <1>3. JobInv'
    BY <1>1, <1>2, GoesOn DEF person, clock
  <1> QED BY <1>2, <1>3 DEF Typed, TypeOK, Others, person, token, clock

LEMMA AddTokensTyped ==
    ASSUME Typed, NEW a \in Actors, AddTokens(a)
    PROVE  Typed'
  <1> DEFINE w == job[a].worker
             n == job[a].amount
  <1>1. Step(a, "tokens") /\ w \in Workers /\ n \in Int /\ Advance(a)
    BY StepIs, BusyFields DEF AddTokens
  <1>2. UNCHANGED <<person, rows, token, ghosts, clock>>
        /\ tokens' = IF HasRow(w) THEN [tokens EXCEPT ![w] = @ + n] ELSE tokens
    BY DEF AddTokens
  <1> HIDE DEF w, n
  <1>3. tokens' \in [Workers -> Int]
    BY <1>1, <1>2 DEF Typed, TypeOK
  <1> QED BY <1>1, <1>2, <1>3, TablesTyped DEF rows, ghosts, Typed, TypeOK

LEMMA UseTokensTyped ==
    ASSUME Typed, NEW a \in Actors, UseTokens(a)
    PROVE  Typed'
  <1> DEFINE w == job[a].worker
             n == job[a].amount
  <1>1. Step(a, "use") /\ w \in Workers /\ n \in Int /\ (Advance(a) \/ Finish(a))
    BY StepIs, BusyFields DEF UseTokens
  <1>2. UNCHANGED <<person, rows, token, crashes, lost, clock>>
    BY DEF UseTokens
  <1>3. tokens' = tokens \/ (tokens[w] >= n /\ tokens' = [tokens EXCEPT ![w] = @ - n])
    BY DEF UseTokens
  <1>4. broken' = broken \/ broken' = broken \cup {w}
    BY DEF UseTokens
  <1> HIDE DEF w, n
  <1>5. tokens' \in [Workers -> Int] /\ broken' \subseteq Workers
    <2>1. tokens \in [Workers -> Int] /\ broken \subseteq Workers /\ tokens[w] \in Int
      BY <1>1 DEF Typed, TypeOK
    <2>2. tokens[w] >= n => tokens[w] - n \in Int
      BY <1>1, <2>1
    <2>3. tokens' \in [Workers -> Int]
      BY <1>3, <2>1, <2>2
    <2> QED BY <1>1, <1>4, <2>1, <2>3
  <1> QED BY <1>1, <1>2, <1>5, TablesTyped DEF rows, Typed, TypeOK

LEMMA DrawCertificateTyped ==
    ASSUME Typed, NEW a \in Actors, DrawCertificate(a)
    PROVE  Typed'
  <1> DEFINE w == job[a].worker
  <1>1. Step(a, "pdf") /\ w \in Workers /\ Advance(a)
    BY StepIs, BusyFields DEF DrawCertificate
  <1>2. UNCHANGED <<person, rows, token, crashes, lost, clock>>
    BY DEF DrawCertificate
  <1>3. tokens' = tokens \/ tokens' = [tokens EXCEPT ![w] = @ + 1]
    BY DEF DrawCertificate
  <1>4. broken' = broken \/ broken' = broken \cup {w}
    BY DEF DrawCertificate
  <1> HIDE DEF w
  <1>5. tokens' \in [Workers -> Int] /\ broken' \subseteq Workers
    BY <1>1, <1>3, <1>4 DEF Typed, TypeOK
  <1> QED BY <1>1, <1>2, <1>5, TablesTyped DEF rows, Typed, TypeOK

\* A row of credit_history for a job.
RowOf(j) == [type |-> j.op, tx |-> j.tx,
             amount |-> IF j.op \in Burns THEN -j.amount ELSE j.amount]

LEMMA RecordHistoryIs ==
    ASSUME Typed, NEW a \in Actors, RecordHistory(a)
    PROVE  LET w == job[a].worker
               h == history[w]
           IN /\ Step(a, "history") /\ w \in Workers /\ job[a] \in Busy
              /\ RowOf(job[a]) \in HistoryRow
              /\ UNCHANGED <<person, tokens, checkins, bonuses, token, ghosts, clock>>
              /\ h \in Seq(HistoryRow)
              /\ \/ ~HasRow(w) /\ Finish(a) /\ UNCHANGED history
                 \/ /\ HasRow(w) /\ Advance(a)
                    /\ history' \in [Workers -> Seq(HistoryRow)]
                    /\ history' = [history EXCEPT ![w] = Append(h, RowOf(job[a]))]
                    /\ history'[w] = Append(h, RowOf(job[a]))
                    /\ \A v \in Workers \ {w} : history'[v] = history[v]
  <1> DEFINE j == job[a]
             w == j.worker
             h == history[w]
             row == RowOf(j)
  <1>1. Step(a, "history") /\ w \in Workers /\ j \in Busy
    BY StepIs, BusyFields DEF RecordHistory
  <1>2. row \in HistoryRow
    BY <1>1, BusyFields DEF RowOf, HistoryRow, Ops
  <1>3. h \in Seq(HistoryRow)
    BY <1>1 DEF Typed, TypeOK
  <1>4. UNCHANGED <<person, tokens, checkins, bonuses, token, ghosts, clock>>
    BY DEF RecordHistory
  <1>5. \/ ~HasRow(w) /\ Finish(a) /\ UNCHANGED history
        \/ /\ HasRow(w) /\ Advance(a)
           /\ history' = [history EXCEPT ![w] = Append(h, row)]
    BY DEF RecordHistory, RowOf
  <1>6. Append(h, row) \in Seq(HistoryRow)
    BY <1>2, <1>3, AppendProperties
  <1> HIDE DEF row, w
  <1>7. history' = [history EXCEPT ![w] = Append(h, row)] =>
           /\ history' \in [Workers -> Seq(HistoryRow)]
           /\ history'[w] = Append(h, row)
           /\ \A v \in Workers \ {w} : history'[v] = history[v]
    <2> DEFINE x == Append(h, row)
    <2> HIDE DEF x
    <2>1. history' = [history EXCEPT ![w] = x] =>
             /\ history' \in [Workers -> Seq(HistoryRow)]
             /\ history'[w] = x
             /\ \A v \in Workers \ {w} : history'[v] = history[v]
      BY <1>1, <1>6 DEF Typed, TypeOK, x
    <2> QED BY <2>1 DEF x
  <1> QED BY <1>1, <1>2, <1>3, <1>4, <1>5, <1>7 DEF row, w

LEMMA RecordHistoryTyped ==
    ASSUME Typed, NEW a \in Actors, RecordHistory(a)
    PROVE  Typed'
  <1>1. /\ Step(a, "history") /\ (Advance(a) \/ Finish(a))
        /\ UNCHANGED <<person, tokens, checkins, bonuses, token, ghosts, clock>>
        /\ history' \in [Workers -> Seq(HistoryRow)]
    BY RecordHistoryIs DEF Typed, TypeOK
  <1> QED BY <1>1, TablesTyped DEF ghosts, Typed, TypeOK

\* The row of daily_checkins that a job inserts.
CheckinOf(j) == [day |-> today, amount |-> j.amount, tx |-> j.tx, began |-> j.ref,
                 streak |-> StreakDays(Dates(j.worker), today) + 1]

LEMMA InsertCheckinIs ==
    ASSUME Typed, NEW a \in Actors, InsertCheckin(a)
    PROVE  LET w == job[a].worker
               row == CheckinOf(job[a])
           IN /\ Step(a, "checkin") /\ w \in Workers /\ job[a] \in Busy /\ a = "api"
              /\ job[a].op = "checkin" /\ job[a].ref \in 1 .. today
              /\ Advance(a)
              /\ row \in CheckinRow
              /\ UNCHANGED <<person, tokens, history, bonuses, token, ghosts, clock>>
              /\ checkins' = [checkins EXCEPT ![w] = @ \cup {row}]
              /\ checkins' \in [Workers -> SUBSET CheckinRow]
              /\ checkins'[w] = checkins[w] \cup {row}
              /\ \A v \in Workers \ {w} : checkins'[v] = checkins[v]
  <1> DEFINE j == job[a]
             w == j.worker
             n == StreakDays(Dates(w), today)
             row == CheckinOf(j)
  <1>1. Step(a, "checkin") /\ w \in Workers /\ j \in Busy /\ j # Idle /\ a = "api"
    BY StepIs, BusyFields DEF InsertCheckin, BonusSteps
  <1>2. j.op = "checkin" /\ j.ref \in 1 .. today /\ j.amount \in Nat
    BY <1>1, StepIs, AheadKind DEF Typed, JobInv, Payable
  <1>3. /\ Advance(a) /\ checkins' = [checkins EXCEPT ![w] = @ \cup {row}]
        /\ UNCHANGED <<person, tokens, history, bonuses, token, ghosts, clock>>
    BY DEF InsertCheckin, CheckinOf
  <1>4. n \in Nat
    BY <1>1, DatesAreDays, StreakNat DEF Typed
  <1>5. today \in Days /\ j.ref \in Days
    BY <1>2, MaxDayIs DEF Typed, TypeOK, Days
  <1>6. row \in CheckinRow
    <2>1. row = [day |-> today, amount |-> j.amount, tx |-> j.tx, began |-> j.ref, streak |-> n + 1]
      BY DEF CheckinOf
    <2>2. n + 1 \in Nat
      BY <1>4
    <2> HIDE DEF n, row, j
    <2> QED BY <1>1, <1>2, <1>5, <2>1, <2>2, BusyFields DEF CheckinRow
  <1> HIDE DEF row, w
  <1>7. /\ checkins' \in [Workers -> SUBSET CheckinRow]
        /\ checkins'[w] = checkins[w] \cup {row}
        /\ \A v \in Workers \ {w} : checkins'[v] = checkins[v]
    BY <1>1, <1>3, <1>6 DEF Typed, TypeOK
  <1> QED BY <1>1, <1>2, <1>3, <1>6, <1>7 DEF row, w

LEMMA InsertCheckinTyped ==
    ASSUME Typed, NEW a \in Actors, InsertCheckin(a)
    PROVE  Typed'
  <1>1. /\ Step(a, "checkin") /\ Advance(a)
        /\ UNCHANGED <<person, tokens, history, bonuses, token, ghosts, clock>>
        /\ checkins' \in [Workers -> SUBSET CheckinRow]
    BY InsertCheckinIs
  <1> QED BY <1>1, TablesTyped DEF ghosts, Typed, TypeOK

LEMMA InsertBonusIs ==
    ASSUME Typed, NEW a \in Actors, InsertBonus(a)
    PROVE  LET w == job[a].worker
               m == job[a].ref
           IN /\ Step(a, "bonus") /\ w \in Workers /\ m \in Nat /\ a = "api"
              /\ job[a].op = "monthly" /\ job[a] # Idle
              /\ Advance(a)
              /\ UNCHANGED <<person, tokens, history, checkins, token, ghosts, clock>>
              /\ bonuses' = [bonuses EXCEPT ![w] = @ \cup {m}]
              /\ bonuses' \in [Workers -> SUBSET Nat]
              /\ bonuses'[w] = bonuses[w] \cup {m}
              /\ \A v \in Workers \ {w} : bonuses'[v] = bonuses[v]
  <1> DEFINE j == job[a]
             w == j.worker
             m == j.ref
  <1>1. Step(a, "bonus") /\ w \in Workers /\ j \in Busy /\ j # Idle /\ a = "api"
    BY StepIs, BusyFields DEF InsertBonus, BonusSteps
  <1>2. j.op = "monthly" /\ m \in Nat
    BY <1>1, StepIs, AheadKind DEF Typed, JobInv
  <1>3. /\ Advance(a) /\ bonuses' = [bonuses EXCEPT ![w] = @ \cup {m}]
        /\ UNCHANGED <<person, tokens, history, checkins, token, ghosts, clock>>
    BY DEF InsertBonus
  <1> HIDE DEF w, m
  <1>4. /\ bonuses' \in [Workers -> SUBSET Nat]
        /\ bonuses'[w] = bonuses[w] \cup {m}
        /\ \A v \in Workers \ {w} : bonuses'[v] = bonuses[v]
    BY <1>1, <1>2, <1>3 DEF Typed, TypeOK
  <1> QED BY <1>1, <1>2, <1>3, <1>4 DEF w, m

LEMMA InsertBonusTyped ==
    ASSUME Typed, NEW a \in Actors, InsertBonus(a)
    PROVE  Typed'
  <1>1. /\ Step(a, "bonus") /\ Advance(a)
        /\ UNCHANGED <<person, tokens, history, checkins, token, ghosts, clock>>
        /\ bonuses' \in [Workers -> SUBSET Nat]
    BY InsertBonusIs
  <1> QED BY <1>1, TablesTyped DEF ghosts, Typed, TypeOK

LEMMA CheckMonthIs ==
    ASSUME Typed, NEW a \in Actors, CheckMonth(a)
    PROVE  LET w == job[a].worker
               m == MonthOf(today) - 1
               r == job'[a]
           IN /\ Step(a, "monthly") /\ w \in Workers /\ a = "api" /\ job[a] # Idle
              /\ UNCHANGED <<person, tokens, rows, token, ghosts, clock>>
              /\ Others(a)
              /\ Ahead(job[a]) = {"monthly"}
              /\ \/ r = Idle
                 \/ /\ InScript(r) /\ r.op = "monthly" /\ r.worker = w /\ r.at = 1
                    /\ r.tx = 0 /\ r.ref = m /\ m \in Nat /\ r.amount = PerfectAttendanceBonus
                    /\ m \notin bonuses[w]
                    /\ \A d \in Days : MonthOf(d) = m => d \in Dates(w)
  <1> DEFINE w == job[a].worker
             m == MonthOf(today) - 1
             due == m \notin bonuses[w] /\ PerfectAttendance(w, m)
             r == [op |-> "monthly", worker |-> w, at |-> 1, tx |-> 0,
                   amount |-> PerfectAttendanceBonus, ref |-> m]
  <1>1. Step(a, "monthly") /\ w \in Workers /\ a = "api" /\ job[a] # Idle /\ InScript(job[a])
    BY StepIs, BusyFields DEF CheckMonth, BonusSteps
  <1>2. Ahead(job[a]) = {"monthly"}
    BY <1>1, AheadNow DEF Step
  <1>3. job' = [job EXCEPT ![a] = IF due THEN r ELSE Idle]
        /\ UNCHANGED <<person, tokens, rows, token, ghosts, clock>>
    BY DEF CheckMonth
  <1>4. m \in Int
    BY MonthBounds, MaxDayIs DEF Typed, TypeOK
  <1>5. CASE ~due
    <2>1. Finish(a)
      BY <1>3, <1>5 DEF Finish
    <2> QED BY <1>1, <1>2, <1>3, <2>1, FinishIs
  <1>6. CASE due
    <2>1. m \in Nat /\ \A d \in Days : MonthOf(d) = m => d \in Dates(w)
      BY <1>1, <1>4, <1>6, AttendedMonth DEF Typed
    <2>2. "monthly" \in Ops
      BY DEF Ops, Mints
    <2>3. PerfectAttendanceBonus \in Nat
      BY DEF PerfectAttendanceBonus
    <2> DEFINE n == PerfectAttendanceBonus
    <2> HIDE DEF w, m, n
    <2>4. r \in Busy /\ r.op = "monthly" /\ r.worker = w /\ r.at = 1 /\ r.tx = 0
          /\ r.ref = m /\ r.amount = n
      BY <1>1, <1>4, <2>2, <2>3 DEF Busy, n
    <2> HIDE DEF r
    <2>5. InScript(r)
      BY <2>2, <2>4, FirstStep DEF InScript
    <2>6. job' = [job EXCEPT ![a] = r]
      BY <1>3, <1>6
    <2>7. Others(a) /\ job'[a] = r
      BY <2>4, <2>6, GivenIs
    <2> QED BY <1>1, <1>2, <1>3, <1>6, <2>1, <2>4, <2>5, <2>7 DEF w, m, n
  <1> QED BY <1>5, <1>6

LEMMA CheckMonthTyped ==
    ASSUME Typed, NEW a \in Actors, CheckMonth(a)
    PROVE  Typed'
  <1> DEFINE w == job[a].worker
             r == job'[a]
  <1>1. /\ w \in Workers /\ a = "api" /\ job[a] # Idle
        /\ UNCHANGED <<person, tokens, rows, token, ghosts, clock>>
        /\ Others(a)
        /\ \/ r = Idle
           \/ /\ InScript(r) /\ r.op = "monthly" /\ r.worker = w /\ r.ref \in Nat
              /\ r.amount = PerfectAttendanceBonus
    BY CheckMonthIs
  <1> HIDE DEF Idle
  <1>2. UNCHANGED <<member, today>>
    BY <1>1 DEF person, clock
  <1>3. JobInv'
    <2> SUFFICES ASSUME NEW b \in Actors, job'[b] # Idle
                 PROVE  LET j == job'[b] IN
                        /\ InScript(j) /\ Payable(j)
                        /\ b \in Workers => j.op = "signup" /\ j.worker = b
                        /\ member'[j.worker] # "none"
                        /\ j.op = "checkin" => j.ref \in 1 .. today'
                        /\ j.op = "monthly" => j.ref \in Nat
      BY DEF JobInv, InScript
    <2>1. CASE b # a
      BY <1>1, <1>2, <2>1 DEF Others, Typed, JobInv
    <2>2. CASE b = a
      <3>1. member[w] # "none"
        BY <1>1 DEF Typed, JobInv
      <3>2. Payable(r) \/ r = Idle
        BY <1>1 DEF Payable, PerfectAttendanceBonus
      <3> QED BY <1>1, <1>2, <2>2, <3>1, <3>2, Apart
    <2> QED BY <2>1, <2>2
  <1> QED BY <1>1, <1>3 DEF Typed, TypeOK, Others, person, rows, token, ghosts, clock

LEMMA DeleteWorkerIs ==
    ASSUME Typed, NEW a \in Actors, DeleteWorker(a)
    PROVE  LET w == job[a].worker IN
           /\ Step(a, "delete") /\ w \in Workers /\ a = "api" /\ job[a] # Idle
           /\ job[a].op = "withdraw"
           /\ Others(a) /\ job'[a] = Idle
           /\ UNCHANGED <<complete, applied, uploads, bonuses, token, crashes, lost, clock>>
           /\ \/ /\ bonuses[w] = {}
                 /\ member' = [v \in Workers |-> IF v = w THEN "gone" ELSE member[v]]
                 /\ tokens' = [v \in Workers |-> IF v = w THEN 0 ELSE tokens[v]]
                 /\ history' = [v \in Workers |-> IF v = w THEN <<>> ELSE history[v]]
                 /\ checkins' = [v \in Workers |-> IF v = w THEN {} ELSE checkins[v]]
                 /\ UNCHANGED broken
              \/ /\ broken' = broken \cup {w}
                 /\ UNCHANGED <<member, tokens, history, checkins>>
  <1> DEFINE w == job[a].worker
  <1>1. Step(a, "delete") /\ w \in Workers /\ a = "api" /\ job[a] # Idle
    BY StepIs, BusyFields DEF DeleteWorker, BonusSteps
  <1>2. job[a].op = "withdraw"
    BY <1>1, StepIs, AheadKind
  <1>3. Finish(a) /\ UNCHANGED <<complete, applied, uploads, bonuses, token, crashes, lost, clock>>
    BY DEF DeleteWorker
  <1>4. Others(a) /\ job'[a] = Idle
    BY <1>3, FinishIs
  <1>5. \/ /\ bonuses[w] = {}
           /\ member' = [member EXCEPT ![w] = "gone"]
           /\ tokens' = [tokens EXCEPT ![w] = 0]
           /\ history' = [history EXCEPT ![w] = <<>>]
           /\ checkins' = [checkins EXCEPT ![w] = {}]
           /\ UNCHANGED broken
        \/ /\ broken' = broken \cup {w}
           /\ UNCHANGED <<member, tokens, history, checkins>>
    BY DEF DeleteWorker
  <1> HIDE DEF w
  <1>6. \/ /\ bonuses[w] = {}
           /\ member' = [v \in Workers |-> IF v = w THEN "gone" ELSE member[v]]
           /\ tokens' = [v \in Workers |-> IF v = w THEN 0 ELSE tokens[v]]
           /\ history' = [v \in Workers |-> IF v = w THEN <<>> ELSE history[v]]
           /\ checkins' = [v \in Workers |-> IF v = w THEN {} ELSE checkins[v]]
           /\ UNCHANGED broken
        \/ /\ broken' = broken \cup {w}
           /\ UNCHANGED <<member, tokens, history, checkins>>
    BY <1>1, <1>5 DEF Typed, TypeOK
  <1> QED BY <1>1, <1>2, <1>3, <1>4, <1>6 DEF w

LEMMA DeleteWorkerTyped ==
    ASSUME Typed, NEW a \in Actors, DeleteWorker(a)
    PROVE  Typed'
  <1> DEFINE w == job[a].worker
  <1>1. Step(a, "delete") /\ w \in Workers /\ job[a] # Idle
        /\ Others(a) /\ job'[a] = Idle
        /\ UNCHANGED <<complete, applied, uploads, bonuses, token, crashes, lost, clock>>
    BY DeleteWorkerIs
  <1> HIDE DEF w
  <1>2. CASE /\ member' = [v \in Workers |-> IF v = w THEN "gone" ELSE member[v]]
             /\ tokens' = [v \in Workers |-> IF v = w THEN 0 ELSE tokens[v]]
             /\ history' = [v \in Workers |-> IF v = w THEN <<>> ELSE history[v]]
             /\ checkins' = [v \in Workers |-> IF v = w THEN {} ELSE checkins[v]]
             /\ UNCHANGED broken
    <2>1. /\ member' \in [Workers -> {"none", "row", "gone"}]
          /\ tokens' \in [Workers -> Int]
          /\ checkins' \in [Workers -> SUBSET CheckinRow]
          /\ \A v \in Workers : member[v] # "none" => member'[v] # "none"
      BY <1>2 DEF Typed, TypeOK
    <2>2. history' \in [Workers -> Seq(HistoryRow)]
      BY <1>2, EmptySeq DEF Typed, TypeOK
    <2>3. JobInv'
      BY <1>1, <2>1, GoesOn DEF clock
    <2> QED BY <1>1, <1>2, <2>1, <2>2, <2>3 DEF Typed, TypeOK, Others, token, clock
  <1>3. CASE /\ broken' = broken \cup {w}
             /\ UNCHANGED <<member, tokens, history, checkins>>
    <2>1. JobInv'
      BY <1>1, <1>3, GoesOn DEF clock
    <2> QED BY <1>1, <1>3, <2>1 DEF Typed, TypeOK, Others, token, clock
  <1>4. \/ /\ member' = [v \in Workers |-> IF v = w THEN "gone" ELSE member[v]]
           /\ tokens' = [v \in Workers |-> IF v = w THEN 0 ELSE tokens[v]]
           /\ history' = [v \in Workers |-> IF v = w THEN <<>> ELSE history[v]]
           /\ checkins' = [v \in Workers |-> IF v = w THEN {} ELSE checkins[v]]
           /\ UNCHANGED broken
        \/ /\ broken' = broken \cup {w}
           /\ UNCHANGED <<member, tokens, history, checkins>>
    BY DeleteWorkerIs DEF w
  <1> QED BY <1>2, <1>3, <1>4

LEMMA ContinueTyped ==
    ASSUME Typed, NEW a \in Actors, Continue(a)
    PROVE  Typed'
  BY SendTyped, ReceiptTyped, TimeoutTyped, AddTokensTyped, UseTokensTyped,
     RecordHistoryTyped, InsertCheckinTyped, CheckMonthTyped, InsertBonusTyped,
     DrawCertificateTyped, DeleteWorkerTyped DEF Continue

\* Actor a begins to work for w: from the first step, but for a withdrawal
\* that has nothing to burn.
Begun(a, w) ==
    LET j == job'[a] IN
    /\ Others(a) /\ job[a] = Idle /\ InScript(j) /\ Payable(j)
    /\ j.worker = w /\ j.tx = 0
    /\ j.at = 1 \/ j.op = "withdraw"
    /\ j.op # "monthly"
    /\ a \in Workers => j.op = "signup" /\ a = w
    /\ j.op = "checkin" => /\ j.ref = today
                           /\ j.amount = Reward(StreakDays(Dates(w), today))
    /\ j.op = "profile" => ~HistoryHas(w, "profile")

LEMMA BeginBegun ==
    ASSUME Typed, NEW a \in Actors, NEW op \in Ops, NEW w \in Workers, NEW n \in Int,
           n \in Nat \/ op \in {"mint", "burn"},
           Begin(a, op, w, n), op \notin {"monthly", "checkin"},
           a \in Workers => op = "signup" /\ a = w,
           op = "profile" => ~HistoryHas(w, "profile")
    PROVE  Begun(a, w)
  <1> DEFINE j == job'[a]
  <1>1. /\ Others(a) /\ job[a] = Idle /\ InScript(j)
        /\ j.op = op /\ j.worker = w /\ j.amount = n /\ j.at = 1 /\ j.tx = 0
    <2> DEFINE ref == 0
               first == 1
    <2>1. BeginAt(a, op, w, n, ref, first)
      BY DEF Begin
    <2>2. ref \in Int /\ first \in 1 .. Len(Script(op)) /\ first = 1
      BY FirstStep
    <2> HIDE DEF ref, first
    <2> QED BY <2>1, <2>2, BeginIs
  <1> HIDE DEF j
  <1>2. Payable(j)
    BY <1>1, AheadFirst DEF Payable
  <1> QED BY <1>1, <1>2 DEF Begun, j

\* What a request does: it registers w, or it is about a worker with a row.
Asked(w) ==
    /\ \/ UNCHANGED job
       \/ \E a \in Actors : Begun(a, w)
    /\ \/ /\ member[w] = "none"
          /\ member' = [v \in Workers |-> IF v = w THEN "row" ELSE member[v]]
          /\ tokens' = [v \in Workers |-> IF v = w THEN DefaultTokens ELSE tokens[v]]
       \/ /\ HasRow(w) \/ UNCHANGED job
          /\ UNCHANGED <<member, tokens>>
    /\ complete' \in [Workers -> BOOLEAN] /\ uploads' \in [Workers -> Nat]
    /\ requests' \in Nat
    /\ UNCHANGED <<applied, rows, token, ghosts, today>>

LEMMA NewMemberAsked ==
    ASSUME Typed, NEW w \in Workers, NewMember(w),
           UNCHANGED job \/ \E a \in Actors : Begun(a, w)
    PROVE  Asked(w)
  <1>1. /\ member[w] = "none"
        /\ member' = [member EXCEPT ![w] = "row"]
        /\ tokens' = [tokens EXCEPT ![w] = DefaultTokens]
        /\ UNCHANGED <<complete, applied, uploads, rows, token, ghosts, clock>>
    BY DEF NewMember
  <1>2. /\ member' = [v \in Workers |-> IF v = w THEN "row" ELSE member[v]]
        /\ tokens' = [v \in Workers |-> IF v = w THEN DefaultTokens ELSE tokens[v]]
    BY <1>1 DEF Typed, TypeOK
  <1> QED BY <1>1, <1>2 DEF Asked, Typed, TypeOK, clock

LEMMA RegisterAsked ==
    ASSUME Typed, NEW w \in Workers, BotRegister(w) \/ WebRegister(w) \/ EmailRegister(w)
    PROVE  Asked(w)
  <1>1. CASE BotRegister(w)
    <2>1. Begun(w, w)
      BY <1>1, Apart, BeginBegun DEF BotRegister, Ops, Mints, SignupBonus
    <2> QED BY <1>1, <2>1, Apart, NewMemberAsked DEF BotRegister
  <1>2. CASE WebRegister(w)
    <2>1. Begun("api", w)
      BY <1>2, Apart, BeginBegun DEF WebRegister, Ops, Mints, WebSignupBonus
    <2> QED BY <1>2, <2>1, Apart, NewMemberAsked DEF WebRegister
  <1>3. CASE EmailRegister(w)
    BY <1>3, NewMemberAsked DEF EmailRegister, EmailBonus
  <1> QED BY <1>1, <1>2, <1>3

LEMMA GiveProfileBegun ==
    ASSUME Typed, NEW w \in Workers, GiveProfileBonus(w)
    PROVE  /\ UNCHANGED job \/ Begun("api", w)
           /\ requests' \in Nat
  <1>1. CASE UNCHANGED <<job, requests>>
    BY <1>1 DEF Typed, TypeOK
  <1>2. CASE ~HistoryHas(w, "profile") /\ Serve /\ Begin("api", "profile", w, ProfileBonus)
    <2>1. Begun("api", w)
      BY <1>2, Apart, BeginBegun DEF Ops, Mints, ProfileBonus
    <2> QED BY <1>2, <2>1 DEF Serve, Typed, TypeOK
  <1> QED BY <1>1, <1>2 DEF GiveProfileBonus

LEMMA ProfileAsked ==
    ASSUME Typed, NEW w \in Workers,
           UploadBegin(w) \/ UploadEnd(w) \/ \E v \in BOOLEAN : UpdateProfile(w, v)
    PROVE  Asked(w)
  <1>1. CASE UploadBegin(w)
    <2>1. /\ uploads' = [uploads EXCEPT ![w] = @ + 1] /\ HasRow(w)
          /\ UNCHANGED <<member, complete, applied, tokens, rows, token, job, ghosts, clock>>
      BY <1>1 DEF UploadBegin
    <2>2. uploads' \in [Workers -> Nat]
      BY <2>1 DEF Typed, TypeOK
    <2> QED BY <2>1, <2>2 DEF Asked, Typed, TypeOK, clock
  <1>2. CASE UploadEnd(w)
    <2>1. /\ uploads[w] > 0 /\ uploads' = [uploads EXCEPT ![w] = @ - 1]
          /\ UNCHANGED <<member, applied, tokens, rows, token, today, ghosts>>
      BY <1>2 DEF UploadEnd
    <2>2. uploads' \in [Workers -> Nat]
      <3>1. uploads \in [Workers -> Nat] /\ uploads[w] - 1 \in Nat
        BY <2>1 DEF Typed, TypeOK
      <3> QED BY <2>1, <3>1
    <2>3. \/ HasRow(w) /\ complete' = [complete EXCEPT ![w] = TRUE] /\ GiveProfileBonus(w)
          \/ UNCHANGED <<complete, job, requests>>
      BY <1>2 DEF UploadEnd
    <2>4. /\ UNCHANGED job \/ (HasRow(w) /\ Begun("api", w))
          /\ requests' \in Nat
          /\ complete' \in [Workers -> BOOLEAN]
      BY <2>3, GiveProfileBegun DEF Typed, TypeOK
    <2> QED BY <2>1, <2>2, <2>4, Apart DEF Asked
  <1>3. ASSUME NEW v \in BOOLEAN, UpdateProfile(w, v)
        PROVE  Asked(w)
    <2>1. /\ HasRow(w) /\ complete' = [complete EXCEPT ![w] = v]
          /\ GiveProfileBonus(w) \/ UNCHANGED <<job, requests>>
          /\ UNCHANGED <<member, applied, uploads, tokens, rows, token, today, ghosts>>
      BY <1>3 DEF UpdateProfile
    <2>2. /\ UNCHANGED job \/ Begun("api", w)
          /\ requests' \in Nat
          /\ complete' \in [Workers -> BOOLEAN]
      BY <2>1, GiveProfileBegun DEF Typed, TypeOK
    <2> QED BY <2>1, <2>2, Apart DEF Asked, Typed, TypeOK
  <1> QED BY <1>1, <1>2, <1>3

\* The other requests begin a handler of the API.
LEMMA RequestAsked ==
    ASSUME Typed, NEW w \in Workers, Serve, HasRow(w), Begun("api", w),
           UNCHANGED <<person, tokens, rows, token, today, ghosts>>
    PROVE  Asked(w)
  BY Apart DEF Serve, Asked, Typed, TypeOK, person

LEMMA RequestsAsked ==
    ASSUME Typed, NEW w \in Workers,
           \/ \E n \in Amounts : AdminMint(w, n) \/ Spend("burn", w, n)
           \/ Spend("cert", w, 1)
           \/ CheckIn(w) \/ Withdraw(w)
    PROVE  Asked(w)
  <1>1. ASSUME NEW n \in Amounts, AdminMint(w, n) PROVE Asked(w)
    <2>1. n \in Int
      BY CreditsAssumption
    <2>2. Begun("api", w)
      BY <1>1, <2>1, Apart, BeginBegun DEF AdminMint, Ops, Mints
    <2> QED BY <1>1, <2>2, RequestAsked DEF AdminMint
  <1>2. ASSUME NEW n \in Int, NEW op \in {"burn", "cert"}, n \in Nat \/ op = "burn",
               Spend(op, w, n)
        PROVE  Asked(w)
    <2>1. Begun("api", w)
      BY <1>2, Apart, BeginBegun DEF Spend, Ops, Burns
    <2> QED BY <1>2, <2>1, RequestAsked DEF Spend
  <1>3. CASE CheckIn(w)
    <2> DEFINE n == Reward(StreakDays(Dates(w), today))
    <2>1. n \in Nat
      BY DatesAreDays, StreakNat DEF Typed
    <2>2. BeginAt("api", "checkin", w, n, today, 1)
      BY <1>3 DEF CheckIn
    <2>3. today \in Int /\ "checkin" \in Ops
      BY MaxDayIs DEF Typed, TypeOK, Ops, Mints
    <2> HIDE DEF n
    <2> DEFINE op == "checkin"
               first == 1
    <2>6. op \in Ops /\ first \in 1 .. Len(Script(op)) /\ today \in Int
          /\ BeginAt("api", op, w, n, today, first)
      BY <2>2, <2>3, FirstStep
    <2> HIDE DEF op, first
    <2>4. LET r == job'["api"] IN
          /\ Others("api")
          /\ job["api"] = Idle
          /\ InScript(r)
          /\ r.op = op /\ r.worker = w /\ r.amount = n /\ r.ref = today /\ r.at = first /\ r.tx = 0
      BY <2>1, <2>6, Apart, BeginIs
    <2>5. Begun("api", w)
      BY <2>1, <2>4, Apart DEF Begun, Payable, n, op, first
    <2> QED BY <1>3, <2>5, RequestAsked DEF CheckIn
  <1>4. CASE Withdraw(w)
    <2>1. PICK b \in {balance[w], 0} :
             BeginAt("api", "withdraw", w, b, 0, IF Enabled /\ b > 0 THEN 1 ELSE 3)
      BY <1>4 DEF Withdraw
    <2> DEFINE k == IF Enabled /\ b > 0 THEN 1 ELSE 3
    <2>2. b \in Nat
      BY DEF Typed, TypeOK
    <2>3. "withdraw" \in Ops /\ k \in {1, 3}
      BY DEF Ops, Burns
    <2>4. k \in 1 .. Len(Script("withdraw"))
      <3>1. ScriptShape("withdraw", Script("withdraw"))
        BY <2>3, ScriptFacts
      <3>2. Len(Script("withdraw")) = 3
        BY <3>1 DEF ScriptShape
      <3> QED BY <2>3, <3>2
    <2> DEFINE ref == 0
    <2>5. BeginAt("api", "withdraw", w, b, ref, k) /\ ref \in Int
      BY <2>1
    <2> HIDE DEF k, ref
    <2>6. LET r == job'["api"] IN
          /\ Others("api")
          /\ job["api"] = Idle
          /\ InScript(r)
          /\ r.op = "withdraw" /\ r.worker = w /\ r.amount = b /\ r.ref = ref /\ r.at = k /\ r.tx = 0
      BY <2>2, <2>3, <2>4, <2>5, Apart, BeginIs
    <2>7. Begun("api", w)
      BY <2>2, <2>6, Apart DEF Begun, Payable
    <2> QED BY <1>4, <2>7, RequestAsked DEF Withdraw
  <1>5. Amounts \subseteq Int
    BY CreditsAssumption
  <1> QED BY <1>1, <1>2, <1>3, <1>4, <1>5

LEMMA AskIs ==
    ASSUME Typed, Ask
    PROVE  \E w \in Workers : Asked(w)
  BY RegisterAsked, ProfileAsked, RequestsAsked DEF Ask

LEMMA AskedTyped ==
    ASSUME Typed, NEW w \in Workers, Asked(w)
    PROVE  Typed'
  <1>1. /\ member' \in [Workers -> {"none", "row", "gone"}]
        /\ tokens' \in [Workers -> Int]
        /\ \A v \in Workers : member[v] # "none" => member'[v] # "none"
        /\ ~(UNCHANGED job) => member'[w] # "none"
    <2>1. CASE /\ member' = [v \in Workers |-> IF v = w THEN "row" ELSE member[v]]
               /\ tokens' = [v \in Workers |-> IF v = w THEN DefaultTokens ELSE tokens[v]]
      BY <2>1 DEF Typed, TypeOK, DefaultTokens
    <2>2. CASE (HasRow(w) \/ UNCHANGED job) /\ UNCHANGED <<member, tokens>>
      BY <2>2 DEF HasRow, Typed, TypeOK
    <2> QED BY <2>1, <2>2 DEF Asked
  <1>2. job' \in [Actors -> Job]
    BY DEF Asked, Begun, Others, Typed, TypeOK
  <1>3. JobInv'
    <2> SUFFICES ASSUME NEW b \in Actors, job'[b] # Idle
                 PROVE  LET j == job'[b] IN
                        /\ InScript(j) /\ Payable(j)
                        /\ b \in Workers => j.op = "signup" /\ j.worker = b
                        /\ member'[j.worker] # "none"
                        /\ j.op = "checkin" => j.ref \in 1 .. today'
                        /\ j.op = "monthly" => j.ref \in Nat
      BY DEF JobInv, InScript
    <2>1. CASE job'[b] = job[b]
      <3>1. job[b].worker \in Workers /\ member[job[b].worker] # "none"
        BY <2>1, BusyFields DEF Typed, JobInv, InScript
      <3> QED BY <1>1, <2>1, <3>1 DEF Asked, Typed, JobInv
    <2>2. CASE job'[b] # job[b]
      <3>1. PICK a \in Actors : Begun(a, w)
        BY <2>2 DEF Asked
      <3>2. b = a
        BY <2>2, <3>1 DEF Begun, Others
      <3>3. today \in 1 .. today
        BY MaxDayIs DEF Typed, TypeOK, Days
      <3> QED BY <1>1, <2>2, <3>1, <3>2, <3>3 DEF Begun, Asked
    <2> QED BY <2>1, <2>2
  <1> QED BY <1>1, <1>2, <1>3 DEF Asked, Typed, TypeOK, rows, token, ghosts

\* A transaction comes to its end; minted credits are lost if nobody waits.
Mined(i) ==
    LET t == txs[i]
        w == t.worker
        waited == job[t.owner] # Idle /\ job[t.owner].tx = i
    IN /\ i \in DOMAIN txs /\ t \in Tx /\ w \in Workers /\ t.amount \in Nat
       /\ t.state = "pending"
       /\ txs' \in Seq(Tx) /\ Len(txs') = Len(txs) /\ DOMAIN txs' = DOMAIN txs
       /\ \A k \in DOMAIN txs : /\ k # i => txs'[k] = txs[k]
                                /\ txs'[k].owner = txs[k].owner
                                /\ txs'[k].op = txs[k].op
                                /\ txs'[k].worker = txs[k].worker
                                /\ txs'[k].amount = txs[k].amount
       /\ UNCHANGED <<person, tokens, rows, job, crashes, broken, clock>>
       /\ balance' \in [Workers -> Nat] /\ lost' \in [Workers -> Nat]
       /\ \A v \in Workers \ {w} : balance'[v] = balance[v] /\ lost'[v] = lost[v]
       /\ \/ txs'[i].state \in {"reverted", "dropped"} /\ UNCHANGED <<balance, lost>>
          \/ /\ txs'[i].state = "ok"
             /\ \/ /\ t.op \in Burns /\ balance[w] >= t.amount
                   /\ balance'[w] = balance[w] - t.amount
                   /\ UNCHANGED lost
                \/ /\ t.op \in Mints
                   /\ balance'[w] = balance[w] + t.amount
                   /\ lost'[w] = IF waited THEN lost[w] ELSE lost[w] + t.amount

LEMMA Disjoint == Burns \cap Mints = {} /\ Ops = Burns \cup Mints
  BY DEF Burns, Mints, Ops

\* The state of transaction i changes.
LEMMA StateChange ==
    ASSUME Typed, NEW i \in DOMAIN txs, NEW s \in {"ok", "reverted", "dropped"},
           txs' = [txs EXCEPT ![i].state = s]
    PROVE  /\ txs[i] \in Tx /\ txs[i].worker \in Workers /\ txs[i].amount \in Nat
           /\ txs[i].op \in Ops
           /\ txs' \in Seq(Tx) /\ Len(txs') = Len(txs) /\ DOMAIN txs' = DOMAIN txs
           /\ \A k \in DOMAIN txs : /\ k # i => txs'[k] = txs[k]
                                    /\ txs'[k].owner = txs[k].owner
                                    /\ txs'[k].op = txs[k].op
                                    /\ txs'[k].worker = txs[k].worker
                                    /\ txs'[k].amount = txs[k].amount
           /\ txs'[i].state = s
  <1> DEFINE t == txs[i]
             r == [t EXCEPT !.state = s]
  <1>1. txs \in Seq(Tx) /\ DOMAIN txs = 1 .. Len(txs) /\ Len(txs) \in Nat /\ t \in Tx
    BY LenProperties, ElementOfSeq DEF Typed, TypeOK
  <1>2. r \in Tx /\ r.state = s /\ r.owner = t.owner /\ r.op = t.op /\ r.worker = t.worker
        /\ r.amount = t.amount
    <2> HIDE DEF t
    <2> QED BY <1>1 DEF Tx
  <1>3. txs' = [txs EXCEPT ![i] = r]
    OBVIOUS
  <1>4. t.worker \in Workers /\ t.amount \in Nat /\ t.op \in Ops
    <2> HIDE DEF t
    <2> QED BY <1>1 DEF Tx, Ops
  <1> HIDE DEF r
  <1>5. txs' \in Seq(Tx) /\ Len(txs') = Len(txs)
    BY <1>1, <1>2, <1>3, ExceptSeq
  <1>6. DOMAIN txs' = DOMAIN txs /\ txs'[i] = r /\ \A k \in DOMAIN txs : k # i => txs'[k] = txs[k]
    BY <1>1, <1>3
  <1> QED BY <1>1, <1>2, <1>4, <1>5, <1>6

LEMMA MineIs ==
    ASSUME Typed, NEW i \in DOMAIN txs, Mine(i) \/ Drop(i)
    PROVE  Mined(i)
  <1> DEFINE t == txs[i]
             w == t.worker
             burn == t.op \in Burns
             reverts == burn /\ balance[w] < t.amount
             waited == job[t.owner] # Idle /\ job[t.owner].tx = i
             s == IF reverts THEN "reverted" ELSE "ok"
  <1>1. CASE Drop(i)
    <2>1. /\ t.state = "pending"
          /\ txs' = [txs EXCEPT ![i].state = "dropped"]
          /\ UNCHANGED <<person, tokens, rows, balance, job, ghosts, clock>>
      BY <1>1 DEF Drop
    <2> QED BY <2>1, StateChange DEF Mined, Typed, TypeOK, ghosts
  <1>2. CASE Mine(i)
    <2>1. /\ t.state = "pending"
          /\ txs' = [txs EXCEPT ![i].state = s]
          /\ UNCHANGED <<person, tokens, rows, job, crashes, broken, clock>>
      BY <1>2 DEF Mine
    <2>2. \/ reverts /\ UNCHANGED <<balance, lost>>
          \/ /\ ~reverts /\ burn
             /\ balance' = [balance EXCEPT ![w] = @ - t.amount]
             /\ UNCHANGED lost
          \/ /\ ~burn
             /\ balance' = [balance EXCEPT ![w] = @ + t.amount]
             /\ lost' = IF waited THEN lost ELSE [lost EXCEPT ![w] = @ + t.amount]
      BY <1>2 DEF Mine
    <2>3. s \in {"ok", "reverted", "dropped"}
      OBVIOUS
    <2>4. /\ t \in Tx /\ w \in Workers /\ t.amount \in Nat /\ t.op \in Ops
          /\ txs' \in Seq(Tx) /\ Len(txs') = Len(txs) /\ DOMAIN txs' = DOMAIN txs
          /\ \A k \in DOMAIN txs : /\ k # i => txs'[k] = txs[k]
                                   /\ txs'[k].owner = txs[k].owner
                                   /\ txs'[k].op = txs[k].op
                                   /\ txs'[k].worker = txs[k].worker
                                   /\ txs'[k].amount = txs[k].amount
          /\ txs'[i].state = s
      <3> HIDE DEF s
      <3> QED BY <2>1, <2>3, StateChange
    <2>5. balance \in [Workers -> Nat] /\ lost \in [Workers -> Nat] /\ balance[w] \in Nat
          /\ lost[w] \in Nat
      BY <2>4 DEF Typed, TypeOK
    <2> DEFINE n == t.amount
    <2> HIDE DEF w, waited
    <2>6. CASE reverts /\ UNCHANGED <<balance, lost>>
      BY <2>1, <2>4, <2>5, <2>6 DEF Mined, w
    <2>7. CASE /\ ~reverts /\ burn
               /\ balance' = [balance EXCEPT ![w] = @ - n]
               /\ UNCHANGED lost
      <3>1. balance[w] >= n /\ balance[w] - n \in Nat
        BY <2>4, <2>5, <2>7
      <3>2. /\ balance' \in [Workers -> Nat] /\ balance'[w] = balance[w] - n
            /\ \A v \in Workers \ {w} : balance'[v] = balance[v]
        <4> HIDE DEF n
        <4> QED BY <2>4, <2>5, <2>7, <3>1
      <3> QED BY <2>1, <2>4, <2>5, <2>7, <3>1, <3>2 DEF Mined, w
    <2>8. CASE /\ ~burn
               /\ balance' = [balance EXCEPT ![w] = @ + n]
               /\ lost' = IF waited THEN lost ELSE [lost EXCEPT ![w] = @ + n]
      <3>1. t.op \in Mints
        BY <2>4, <2>8, Disjoint
      <3>2. /\ balance' \in [Workers -> Nat] /\ balance'[w] = balance[w] + n
            /\ lost' \in [Workers -> Nat]
            /\ lost'[w] = IF waited THEN lost[w] ELSE lost[w] + n
            /\ \A v \in Workers \ {w} : balance'[v] = balance[v] /\ lost'[v] = lost[v]
        <4> HIDE DEF n
        <4> QED BY <2>4, <2>5, <2>8 DEF n
      <3> QED BY <2>1, <2>4, <2>5, <2>8, <3>1, <3>2 DEF Mined, w, waited
    <2> QED BY <2>2, <2>6, <2>7, <2>8
  <1> QED BY <1>1, <1>2

\* Threads and handlers die; the tables stay.
Crashed ==
    \E p \in {"api", "wbot"} :
       LET dies(a) == job[a] # Idle /\ (IF p = "api" THEN a = "api" ELSE a \in Workers) IN
       /\ job' \in [Actors -> Job]
       /\ \A a \in Actors : job'[a] = IF dies(a) THEN Idle ELSE job[a]
       /\ \A a \in Actors : dies(a) => job[a].worker \in broken'
       /\ broken \subseteq broken' /\ broken' \subseteq Workers
       /\ lost' \in [Workers -> Nat]
       /\ \A w \in Workers : lost'[w] = IF p = "api" THEN lost[w] + Owed("api", w)
                                        ELSE lost[w] + Owed(w, w)
       /\ uploads' \in [Workers -> Nat] /\ crashes' \in Nat
       /\ UNCHANGED <<member, complete, applied, tokens, rows, token, clock>>

LEMMA CrashIs ==
    ASSUME Typed, NEW p \in {"api", "wbot"}, Crash(p)
    PROVE  Crashed
  <1> DEFINE dying == {a \in (IF p = "api" THEN {"api"} ELSE Workers) : job[a] # Idle}
             dies(a) == job[a] # Idle /\ (IF p = "api" THEN a = "api" ELSE a \in Workers)
  <1>1. /\ crashes' = crashes + 1
        /\ job' = [a \in Actors |-> IF a \in dying THEN Idle ELSE job[a]]
        /\ uploads' = IF p = "api" THEN [w \in Workers |-> 0] ELSE uploads
        /\ broken' = broken \cup {job[a].worker : a \in dying}
        /\ lost' = [w \in Workers |->
                       IF p = "api" THEN lost[w] + Owed("api", w)
                       ELSE lost[w] + Owed(w, w)]
        /\ UNCHANGED <<member, complete, applied, tokens, rows, token, clock>>
    BY DEF Crash
  <1>2. \A a \in Actors : a \in dying <=> dies(a)
    OBVIOUS
  <1>3. \A a \in dying : a \in Actors /\ job[a].worker \in Workers
    BY Apart, BusyFields DEF Typed, JobInv, InScript
  <1>4. \A w \in Workers : Owed("api", w) \in Nat /\ Owed(w, w) \in Nat
    BY Apart, OwedNat
  <1>5. Idle \in Job
    BY JobIs
  <1> HIDE DEF dying, Idle
  <1>6. job' \in [Actors -> Job] /\ \A a \in Actors : job'[a] = IF dies(a) THEN Idle ELSE job[a]
    BY <1>1, <1>2, <1>5 DEF Typed, TypeOK
  <1>7. /\ \A a \in Actors : dies(a) => job[a].worker \in broken'
        /\ broken \subseteq broken' /\ broken' \subseteq Workers
    BY <1>1, <1>2, <1>3 DEF Typed, TypeOK
  <1>8. /\ lost' \in [Workers -> Nat]
        /\ \A w \in Workers : lost'[w] = IF p = "api" THEN lost[w] + Owed("api", w)
                                         ELSE lost[w] + Owed(w, w)
    <2>1. \A w \in Workers : lost[w] \in Nat
      BY DEF Typed, TypeOK
    <2>2. \A w \in Workers : lost[w] + Owed("api", w) \in Nat /\ lost[w] + Owed(w, w) \in Nat
      BY <1>4, <2>1
    <2> QED BY <1>1, <2>2
  <1>9. uploads' \in [Workers -> Nat] /\ crashes' \in Nat
    BY <1>1 DEF Typed, TypeOK
  <1> QED BY <1>1, <1>6, <1>7, <1>8, <1>9 DEF Crashed

LEMMA NextDayTyped ==
    ASSUME Typed, NextDay
    PROVE  Typed'
  <1>1. /\ today < MaxDay /\ today' = today + 1
        /\ UNCHANGED <<person, tokens, rows, token, job, requests, ghosts>>
    BY DEF NextDay
  <1>2. today' \in Days /\ 1 .. today \subseteq 1 .. today'
    BY <1>1, MaxDayIs DEF Typed, TypeOK, Days
  <1>3. JobInv'
    BY <1>1, <1>2 DEF Typed, JobInv, InScript, person
  <1> QED BY <1>1, <1>2, <1>3 DEF Typed, TypeOK, person, rows, token, ghosts

LEMMA CrashedTyped ==
    ASSUME Typed, Crashed
    PROVE  Typed'
  <1>1. /\ job' \in [Actors -> Job]
        /\ \A a \in Actors : job'[a] = Idle \/ job'[a] = job[a]
        /\ broken' \subseteq Workers /\ lost' \in [Workers -> Nat]
        /\ uploads' \in [Workers -> Nat] /\ crashes' \in Nat
        /\ UNCHANGED <<member, complete, applied, tokens, rows, token, clock>>
    BY DEF Crashed
  <1>2. JobInv'
    BY <1>1 DEF Typed, JobInv, InScript, clock
  <1> QED BY <1>1, <1>2 DEF Typed, TypeOK, rows, token, clock

LEMMA ApplyTyped ==
    ASSUME Typed, NEW w \in Workers, Apply(w)
    PROVE  Typed'
  <1>1. /\ applied' \subseteq Workers
        /\ UNCHANGED <<member, complete, uploads, tokens, rows, token, job, ghosts, clock>>
    BY DEF Apply, Typed, TypeOK
  <1>2. JobInv'
    BY <1>1 DEF Typed, JobInv, InScript, clock
  <1> QED BY <1>1, <1>2 DEF Typed, TypeOK, rows, token, ghosts, clock

LEMMA MinedTyped ==
    ASSUME Typed, NEW i, Mined(i)
    PROVE  Typed'
  <1>1. /\ txs' \in Seq(Tx) /\ balance' \in [Workers -> Nat] /\ lost' \in [Workers -> Nat]
        /\ UNCHANGED <<person, tokens, rows, job, crashes, broken, clock>>
    BY DEF Mined
  <1>2. JobInv'
    BY <1>1 DEF Typed, JobInv, InScript, person, clock
  <1> QED BY <1>1, <1>2 DEF Typed, TypeOK, person, rows, clock

LEMMA StutterTyped ==
    ASSUME Typed, UNCHANGED vars
    PROVE  Typed'
  <1>1. JobInv'
    BY DEF vars, Typed, JobInv, InScript, person, clock
  <1> QED BY <1>1 DEF Typed, TypeOK, vars, person, rows, token, ghosts, clock

\* What a step can be.
Acts ==
    \/ \E a \in Actors : Continue(a)
    \/ \E w \in Workers : Asked(w)
    \/ \E i : Mined(i)
    \/ \E w \in Workers : Apply(w)
    \/ Crashed
    \/ NextDay
    \/ UNCHANGED vars

LEMMA NextIs ==
    ASSUME Typed, [Next]_vars
    PROVE  Acts
  BY AskIs, MineIs, CrashIs DEF Next, Environment, Acts

LEMMA StepTyped == Typed /\ [Next]_vars => Typed'
  <1> SUFFICES ASSUME Typed, [Next]_vars PROVE Typed'
    OBVIOUS
  <1>1. Acts
    BY NextIs
  <1> QED BY <1>1, ContinueTyped, AskedTyped, MinedTyped, ApplyTyped, CrashedTyped,
             NextDayTyped, StutterTyped DEF Acts

LEMMA TypedAlways == Spec => []Typed
  <1> QED BY InitTyped, StepTyped, PTL DEF Spec

-----------------------------------------------------------------------------
(* Rows and workers; the profile bonus.  The API serves workers that exist *)
(* and deletes one only as the last step of a withdrawal; only the signup  *)
(* threads run beside it, and none of their steps adds a row of a worker   *)
(* that is gone.                                                           *)

ApiServesMembers == job["api"] # Idle => HasRow(job["api"].worker)

\* A profile bonus that is being paid has not been recorded.
ProfileUnpaid ==
    job["api"] # Idle /\ job["api"].op = "profile"
        => ~HistoryHas(job["api"].worker, "profile")

TableInv == NoRowsWithoutWorker /\ ApiServesMembers
ProfileInv == ProfileUnpaid /\ ProfileBonusOnce
CreditsInv == TypeOK /\ JobInv /\ TableInv /\ ProfileInv

LEMMA CreditsInvTyped == CreditsInv => Typed
  BY DEF CreditsInv, Typed

LEMMA InitInv == Init => TableInv /\ ProfileInv
  <1> SUFFICES ASSUME Init PROVE TableInv /\ ProfileInv
    OBVIOUS
  <1>1. ApiServesMembers /\ ProfileUnpaid
    BY Apart DEF Init, ApiServesMembers, ProfileUnpaid
  <1>2. NoRowsWithoutWorker
    BY DEF Init, NoRowsWithoutWorker
  <1>3. ProfileBonusOnce
    <2>1. DOMAIN <<>> = {}
      OBVIOUS
    <2> QED BY <2>1 DEF Init, ProfileBonusOnce
  <1> QED BY <1>1, <1>2, <1>3 DEF TableInv, ProfileInv

\* The job of a ends or stays with its worker; a check-in may turn into the
\* monthly bonus.
Moves(a) ==
    /\ Others(a) /\ job[a] # Idle
    /\ \/ job'[a] = Idle
       \/ \E S, n : Onward(job[a], job'[a], S, n)
       \/ job'[a].worker = job[a].worker /\ job'[a].op = "monthly"

LEMMA ContinueMoves ==
    ASSUME Typed, NEW a \in Actors, Continue(a)
    PROVE  Moves(a)
  <1>1. CASE Send(a)
    <2>1. Step(a, "send") /\ (Sends(a) \/ OnFailure(a))
      BY <1>1 DEF Send, Sends
    <2> QED BY <2>1, StepIs, SendsIs, FailureIs DEF Moves, Chain
  <1>2. CASE Receipt(a)
    BY <1>2, StepIs, AdvanceIs, FailureIs DEF Receipt, Moves, Chain
  <1>3. CASE Timeout(a)
    BY <1>3, StepIs, FailureIs DEF Timeout, Moves, Chain
  <1>4. CASE AddTokens(a) \/ RecordHistory(a)
    BY <1>4, StepIs, AdvanceIs, FinishIs DEF AddTokens, RecordHistory, Moves
  <1>5. CASE UseTokens(a)
    BY <1>5, StepIs, AdvanceIs, FinishIs DEF UseTokens, Moves
  <1>6. CASE InsertCheckin(a) \/ InsertBonus(a) \/ DrawCertificate(a)
    BY <1>6, StepIs, AdvanceIs DEF InsertCheckin, InsertBonus, DrawCertificate, Moves
  <1>7. CASE CheckMonth(a)
    <2> HIDE DEF Idle
    <2> QED BY <1>7, CheckMonthIs DEF Moves
  <1>8. CASE DeleteWorker(a)
    BY <1>8, DeleteWorkerIs DEF Moves
  <1> QED BY <1>1, <1>2, <1>3, <1>4, <1>5, <1>6, <1>7, <1>8 DEF Continue

\* Workers come and go by themselves; rows change for workers that exist.
RowsKept ==
    /\ UNCHANGED <<member, history>>
    /\ \A w \in Workers : ~HasRow(w) =>
          tokens'[w] = tokens[w] /\ checkins'[w] = checkins[w] /\ bonuses'[w] = bonuses[w]

LEMMA ApiMoves ==
    ASSUME NEW a \in Actors, Moves(a), job'["api"] # Idle
    PROVE  /\ job["api"] # Idle /\ job'["api"].worker = job["api"].worker
           /\ job'["api"].op = job["api"].op \/ job'["api"].op = "monthly"
  BY Apart DEF Moves, Others, Onward

LEMMA RowsKeptInv ==
    ASSUME CreditsInv, NEW a \in Actors, Moves(a), RowsKept
    PROVE  TableInv' /\ ProfileInv'
  <1>1. NoRowsWithoutWorker'
    BY DEF RowsKept, CreditsInv, TableInv, NoRowsWithoutWorker, HasRow
  <1>2. ApiServesMembers'
    BY ApiMoves DEF RowsKept, CreditsInv, TableInv, ApiServesMembers, HasRow
  <1>3. ProfileInv'
    BY ApiMoves DEF RowsKept, CreditsInv, ProfileInv, ProfileUnpaid, ProfileBonusOnce, HistoryHas
  <1> QED BY <1>1, <1>2, <1>3 DEF TableInv

\* The worker of an API handler exists.
LEMMA Served ==
    ASSUME CreditsInv, NEW a \in Actors, NEW s, Step(a, s)
    PROVE  /\ job[a].worker \in Workers
           /\ s \notin BonusSteps => a = "api" /\ HasRow(job[a].worker)
  BY CreditsInvTyped, StepIs, BusyFields DEF CreditsInv, TableInv, ApiServesMembers

LEMMA RowsKeptSteps ==
    ASSUME CreditsInv, NEW a \in Actors,
           \/ AddTokens(a) \/ UseTokens(a) \/ DrawCertificate(a)
           \/ InsertCheckin(a) \/ InsertBonus(a)
    PROVE  RowsKept
  <1> DEFINE w == job[a].worker
             n == job[a].amount
  <1>1. w \in Workers /\ (HasRow(w) \/ AddTokens(a))
    BY Served DEF AddTokens, UseTokens, DrawCertificate, InsertCheckin, InsertBonus, BonusSteps
  <1>2. UNCHANGED <<member, history>>
    BY DEF AddTokens, UseTokens, DrawCertificate, InsertCheckin, InsertBonus, person, rows
  <1>3. CASE AddTokens(a)
    <2>1. UNCHANGED <<checkins, bonuses>>
          /\ tokens' = IF HasRow(w) THEN [tokens EXCEPT ![w] = @ + n] ELSE tokens
      BY <1>3 DEF AddTokens, rows
    <2> HIDE DEF w, n
    <2> QED BY <1>1, <1>2, <2>1 DEF RowsKept, CreditsInv, TypeOK
  <1>4. CASE UseTokens(a) \/ DrawCertificate(a)
    <2>1. /\ HasRow(w) /\ UNCHANGED <<checkins, bonuses>>
          /\ \/ tokens' = tokens \/ tokens' = [tokens EXCEPT ![w] = @ - n]
             \/ tokens' = [tokens EXCEPT ![w] = @ + 1]
      BY <1>4, Served DEF UseTokens, DrawCertificate, rows, BonusSteps
    <2> HIDE DEF w, n
    <2> QED BY <1>1, <1>2, <2>1 DEF RowsKept, CreditsInv, TypeOK
  <1>5. CASE InsertCheckin(a)
    <2>1. /\ UNCHANGED <<tokens, bonuses>>
          /\ \A v \in Workers \ {w} : checkins'[v] = checkins[v]
          /\ HasRow(w)
      BY <1>5, Served, InsertCheckinIs, CreditsInvTyped DEF InsertCheckin, BonusSteps
    <2> QED BY <1>2, <2>1 DEF RowsKept
  <1>6. CASE InsertBonus(a)
    <2>1. /\ UNCHANGED <<tokens, checkins>>
          /\ \A v \in Workers \ {w} : bonuses'[v] = bonuses[v]
          /\ HasRow(w)
      BY <1>6, Served, InsertBonusIs, CreditsInvTyped DEF InsertBonus, BonusSteps
    <2> QED BY <1>2, <2>1 DEF RowsKept
  <1> QED BY <1>3, <1>4, <1>5, <1>6

LEMMA Appended ==
    ASSUME NEW S, NEW h \in Seq(S), NEW row \in S, NEW g, g = Append(h, row)
    PROVE  /\ g \in Seq(S) /\ Len(g) = Len(h) + 1 /\ Len(h) \in Nat
           /\ DOMAIN h = 1 .. Len(h) /\ DOMAIN g = 1 .. Len(h) + 1
           /\ \A i \in DOMAIN h : i \in DOMAIN g /\ g[i] = h[i] /\ i # Len(g)
           /\ g[Len(g)] = row /\ Len(g) \in DOMAIN g
           /\ \A i \in DOMAIN g : i \in DOMAIN h \/ i = Len(g)
  <1>1. Len(h) \in Nat /\ DOMAIN h = 1 .. Len(h)
    BY LenProperties
  <1>2. /\ g \in Seq(S) /\ Len(g) = Len(h) + 1
        /\ \A i \in 1 .. Len(h) : g[i] = h[i]
        /\ g[Len(h) + 1] = row
    BY AppendProperties
  <1>3. DOMAIN g = 1 .. Len(g)
    BY <1>2, LenProperties
  <1> QED BY <1>1, <1>2, <1>3

\* The one step that adds to credit_history.
LEMMA RecordHistoryInv ==
    ASSUME CreditsInv, NEW a \in Actors, RecordHistory(a)
    PROVE  TableInv' /\ ProfileInv'
  <1> DEFINE j == job[a]
             w == j.worker
             row == RowOf(j)
             h == history[w]
             g == history'[w]
  <1>1. Typed /\ Moves(a)
    BY CreditsInvTyped, ContinueMoves DEF Continue
  <1>2. /\ Step(a, "history") /\ w \in Workers /\ j \in Busy /\ j # Idle
        /\ row \in HistoryRow /\ row.type = j.op
        /\ UNCHANGED <<person, tokens, checkins, bonuses, token, ghosts, clock>>
        /\ h \in Seq(HistoryRow)
    BY <1>1, RecordHistoryIs, BusyFields DEF RowOf
  <1>3. CASE UNCHANGED history
    BY <1>1, <1>2, <1>3, RowsKeptInv DEF RowsKept, person
  <1>4. CASE /\ HasRow(w) /\ Advance(a)
             /\ g = Append(h, row)
             /\ \A v \in Workers \ {w} : history'[v] = history[v]
    <2>1. /\ \A i \in DOMAIN h : i \in DOMAIN g /\ g[i] = h[i] /\ i # Len(g)
          /\ g[Len(g)] = row /\ Len(g) \in DOMAIN g
          /\ \A i \in DOMAIN g : i \in DOMAIN h \/ i = Len(g)
      <3> HIDE DEF h, g, row
      <3> QED BY <1>2, <1>4, Appended
    <2>2. NoRowsWithoutWorker'
      BY <1>2, <1>4 DEF CreditsInv, TableInv, NoRowsWithoutWorker, HasRow, person
    <2>3. ApiServesMembers'
      BY <1>1, <1>2, ApiMoves DEF CreditsInv, TableInv, ApiServesMembers, HasRow, person
    \* A profile bonus is recorded by the handler that found none, as its
    \* last step.
    <2>4. j.op = "profile" => a = "api" /\ ~HistoryHas(w, "profile") /\ job'[a] = Idle
      <3> SUFFICES ASSUME j.op = "profile"
                   PROVE  a = "api" /\ ~HistoryHas(w, "profile") /\ job'[a] = Idle
        OBVIOUS
      <3>1. a = "api"
        BY <1>1, <1>2, Apart DEF Typed, JobInv
      <3>2. ~HistoryHas(w, "profile")
        BY <1>2, <3>1 DEF CreditsInv, ProfileInv, ProfileUnpaid
      <3>3. j.at = Len(Script(j.op))
        BY <1>1, <1>2, StepIs, AheadNow DEF Step
      <3>4. Finish(a)
        BY <1>4, <3>3 DEF Advance
      <3> QED BY <1>1, <3>1, <3>2, <3>4, FinishIs
    <2> HIDE DEF row
    <2>5. ProfileBonusOnce'
      <3> SUFFICES ASSUME NEW v \in Workers, NEW i \in DOMAIN history'[v], NEW k \in DOMAIN history'[v],
                          history'[v][i].type = "profile", history'[v][k].type = "profile"
                   PROVE  i = k
        BY DEF ProfileBonusOnce
      <3>1. CASE v # w
        BY <1>4, <3>1 DEF CreditsInv, ProfileInv, ProfileBonusOnce
      <3>2. CASE v = w
        <4>1. \A m, n \in DOMAIN h : h[m].type = "profile" /\ h[n].type = "profile" => m = n
          BY <1>2 DEF CreditsInv, ProfileInv, ProfileBonusOnce
        <4>2. j.op = "profile" => \A m \in DOMAIN h : h[m].type # "profile"
          BY <2>4 DEF HistoryHas
        <4> QED BY <1>2, <2>1, <3>2, <4>1, <4>2
      <3> QED BY <3>1, <3>2
    <2>6. ProfileUnpaid'
      <3> SUFFICES ASSUME job'["api"] # Idle, job'["api"].op = "profile",
                          NEW i \in DOMAIN history'[job'["api"].worker],
                          history'[job'["api"].worker][i].type = "profile"
                   PROVE  FALSE
        BY DEF ProfileUnpaid, HistoryHas
      <3> DEFINE v == job["api"].worker
      <3>1. /\ job["api"] # Idle /\ job["api"].op = "profile" /\ job'["api"].worker = v
        BY <1>1, ApiMoves
      <3>2. v \in Workers /\ ~HistoryHas(v, "profile")
        BY <1>1, <3>1, Apart, BusyFields DEF CreditsInv, ProfileInv, ProfileUnpaid,
           JobInv, InScript
      <3>3. a # "api"
        BY <2>4, <3>1
      <3>4. j.op # "profile"
        BY <1>1, <1>2, <3>3, Apart DEF Typed, JobInv
      <3>5. CASE v # w
        BY <1>4, <3>1, <3>2, <3>5 DEF HistoryHas
      <3>6. CASE v = w
        BY <1>2, <2>1, <3>1, <3>2, <3>4, <3>6 DEF HistoryHas
      <3> QED BY <3>5, <3>6
    <2> QED BY <2>2, <2>3, <2>5, <2>6 DEF TableInv, ProfileInv
  <1> QED BY <1>1, <1>3, <1>4, RecordHistoryIs

\* The rows and the worker go in one transaction, the last step of the
\* withdrawal that the API is serving.
LEMMA DeleteWorkerInv ==
    ASSUME CreditsInv, NEW a \in Actors, DeleteWorker(a)
    PROVE  TableInv' /\ ProfileInv'
  <1> DEFINE w == job[a].worker
  <1>1. Moves(a) /\ a = "api" /\ job'["api"] = Idle /\ UNCHANGED bonuses /\ w \in Workers
    BY CreditsInvTyped, ContinueMoves, DeleteWorkerIs DEF Continue
  <1>2. ApiServesMembers' /\ ProfileUnpaid'
    BY <1>1 DEF ApiServesMembers, ProfileUnpaid
  <1>3. CASE UNCHANGED <<member, tokens, history, checkins>>
    BY <1>1, <1>3, RowsKeptInv DEF RowsKept
  <1>4. CASE /\ bonuses[w] = {}
             /\ member' = [v \in Workers |-> IF v = w THEN "gone" ELSE member[v]]
             /\ tokens' = [v \in Workers |-> IF v = w THEN 0 ELSE tokens[v]]
             /\ history' = [v \in Workers |-> IF v = w THEN <<>> ELSE history[v]]
             /\ checkins' = [v \in Workers |-> IF v = w THEN {} ELSE checkins[v]]
    <2> HIDE DEF w
    <2>1. NoRowsWithoutWorker'
      BY <1>1, <1>4 DEF CreditsInv, TableInv, NoRowsWithoutWorker, HasRow
    <2>2. ProfileBonusOnce'
      <3>1. DOMAIN <<>> = {}
        OBVIOUS
      <3> QED BY <1>4, <3>1 DEF CreditsInv, ProfileInv, ProfileBonusOnce
    <2> QED BY <1>2, <2>1, <2>2 DEF TableInv, ProfileInv
  <1> QED BY <1>3, <1>4, CreditsInvTyped, DeleteWorkerIs

LEMMA ContinueInv ==
    ASSUME CreditsInv, NEW a \in Actors, Continue(a)
    PROVE  TableInv' /\ ProfileInv'
  <1>1. Typed /\ Moves(a)
    BY CreditsInvTyped, ContinueMoves
  <1>2. CASE Send(a) \/ Receipt(a) \/ Timeout(a) \/ CheckMonth(a)
    <2>1. UNCHANGED <<member, tokens, history, checkins, bonuses>>
      BY <1>2 DEF Send, Receipt, Timeout, CheckMonth, person, rows
    <2> QED BY <1>1, <2>1, RowsKeptInv DEF RowsKept
  <1>3. CASE \/ AddTokens(a) \/ UseTokens(a) \/ DrawCertificate(a)
             \/ InsertCheckin(a) \/ InsertBonus(a)
    BY <1>1, <1>3, RowsKeptSteps, RowsKeptInv
  <1>4. CASE RecordHistory(a)
    BY <1>4, RecordHistoryInv
  <1>5. CASE DeleteWorker(a)
    BY <1>5, DeleteWorkerInv
  <1> QED BY <1>2, <1>3, <1>4, <1>5 DEF Continue

LEMMA AskedInv ==
    ASSUME CreditsInv, NEW w \in Workers, Asked(w)
    PROVE  TableInv' /\ ProfileInv'
  <1>1. UNCHANGED <<history, checkins, bonuses>>
    BY DEF Asked, rows
  <1>2. /\ \A v \in Workers : HasRow(v) => member'[v] = "row"
        /\ \A v \in Workers : member'[v] # "row" => ~HasRow(v) /\ tokens'[v] = tokens[v]
        /\ ~(UNCHANGED job) => member'[w] = "row"
    <2>1. CASE /\ member' = [v \in Workers |-> IF v = w THEN "row" ELSE member[v]]
               /\ tokens' = [v \in Workers |-> IF v = w THEN DefaultTokens ELSE tokens[v]]
      BY <2>1 DEF HasRow
    <2>2. CASE (HasRow(w) \/ UNCHANGED job) /\ UNCHANGED <<member, tokens>>
      BY <2>2 DEF HasRow
    <2> QED BY <2>1, <2>2 DEF Asked
  <1>3. NoRowsWithoutWorker'
    BY <1>1, <1>2 DEF CreditsInv, TableInv, NoRowsWithoutWorker, HasRow
  <1>4. job'["api"] = job["api"] \/ (~(UNCHANGED job) /\ Begun("api", w))
    BY Apart DEF Asked, Begun, Others
  <1>5. job["api"] # Idle => job["api"].worker \in Workers
    BY Apart, BusyFields DEF CreditsInv, JobInv, InScript
  <1>6. ApiServesMembers'
    BY <1>2, <1>4, <1>5 DEF Begun, CreditsInv, TableInv, ApiServesMembers, HasRow
  <1>7. ProfileInv'
    BY <1>1, <1>4 DEF Begun, CreditsInv, ProfileInv, ProfileUnpaid, ProfileBonusOnce, HistoryHas
  <1> QED BY <1>3, <1>6, <1>7 DEF TableInv

LEMMA StaysInv ==
    ASSUME CreditsInv, UNCHANGED <<member, tokens, history, checkins, bonuses>>,
           job'["api"] = Idle \/ job'["api"] = job["api"]
    PROVE  TableInv' /\ ProfileInv'
  BY DEF CreditsInv, TableInv, ProfileInv, NoRowsWithoutWorker,
     ProfileBonusOnce, ApiServesMembers, ProfileUnpaid, HasRow, HistoryHas

LEMMA StepInv == CreditsInv /\ [Next]_vars => TableInv' /\ ProfileInv'
  <1> SUFFICES ASSUME CreditsInv, [Next]_vars PROVE TableInv' /\ ProfileInv'
    OBVIOUS
  <1>1. Acts
    BY CreditsInvTyped, NextIs
  <1>2. ASSUME NEW i, Mined(i)
        PROVE  TableInv' /\ ProfileInv'
    BY <1>2, StaysInv DEF Mined, person, rows
  <1>3. ASSUME NEW w \in Workers, Apply(w)
        PROVE  TableInv' /\ ProfileInv'
    BY <1>3, StaysInv DEF Apply, rows
  <1>4. CASE Crashed
    <2>1. UNCHANGED <<member, tokens, history, checkins, bonuses>>
          /\ (job'["api"] = Idle \/ job'["api"] = job["api"])
      BY <1>4, Apart DEF Crashed, rows
    <2> QED BY <2>1, StaysInv
  <1>5. CASE NextDay
    BY <1>5, StaysInv DEF NextDay, person, rows
  <1>6. CASE UNCHANGED vars
    BY <1>6, StaysInv DEF vars, person, rows
  <1> QED BY <1>1, <1>2, <1>3, <1>4, <1>5, <1>6, ContinueInv, AskedInv DEF Acts

LEMMA CreditsInvHolds == Spec => []CreditsInv
  <1>1. Init => CreditsInv
    BY InitTyped, InitInv DEF CreditsInv, Typed
  <1>2. CreditsInv /\ [Next]_vars => CreditsInv'
    <2>1. CreditsInv /\ [Next]_vars => Typed'
      BY CreditsInvTyped, StepTyped
    <2> QED BY <2>1, StepInv DEF CreditsInv, Typed
  <1> QED BY <1>1, <1>2, PTL DEF Spec

\* However the signup thread, the deletion of the account and a crash of
\* either process meet: no credit, check-in or bonus row of a worker is left
\* or written once the worker's row is gone (delete_worker_account,
\* create_credit_history, add_tokens).
THEOREM RowsHaveWorkers == Spec => []NoRowsWithoutWorker
  <1>1. CreditsInv => NoRowsWithoutWorker
    BY DEF CreditsInv, TableInv
  <1> QED BY <1>1, CreditsInvHolds, PTL

\* However many uploads began while the profile was incomplete, and whatever
\* calls fail in between: credit_history holds at most one profile bonus of a
\* worker (_give_profile_completion_bonus).
THEOREM OneProfileBonus == Spec => []ProfileBonusOnce
  <1>1. CreditsInv => ProfileBonusOnce
    BY DEF CreditsInv, ProfileInv
  <1> QED BY <1>1, CreditsInvHolds, PTL

-----------------------------------------------------------------------------
(* Transactions.  A job knows its own transaction, and goes past the wait  *)
(* only if the transaction was executed.                                   *)

JobTx(a) ==
    LET j == job[a] IN
    job[a] # Idle =>
       /\ "send" \in Ahead(j) => j.tx = 0
       /\ Enabled /\ j.op \in {"burn", "cert"} /\ "send" \notin Ahead(j) => j.tx # 0
       /\ j.tx # 0 =>
            /\ j.tx \in DOMAIN txs
            /\ txs[j.tx].owner = a /\ txs[j.tx].op = j.op
            /\ txs[j.tx].worker = j.worker /\ txs[j.tx].amount = j.amount
            /\ "wait" \notin Ahead(j) => txs[j.tx].state = "ok"

TxInv ==
    /\ \A a \in Actors : JobTx(a)
    /\ \A i \in DOMAIN txs :
         /\ member[txs[i].worker] # "none"
         /\ txs[i].owner \in Workers => txs[i].owner = txs[i].worker
    /\ \A w \in Workers : member[w] = "none" => balance[w] = 0

\* Transactions are never taken back.
TxsKept ==
    \A i \in DOMAIN txs :
       /\ i \in DOMAIN txs'
       /\ txs'[i].owner = txs[i].owner /\ txs'[i].op = txs[i].op
       /\ txs'[i].worker = txs[i].worker /\ txs'[i].amount = txs[i].amount
       /\ txs[i].state = "ok" => txs'[i].state = "ok"

NewlyOk(i) == txs'[i].state = "ok" /\ txs[i].state # "ok"

LEMMA SentTxs ==
    ASSUME Typed, NEW a \in Actors, Sends(a)
    PROVE  /\ TxsKept /\ \A i \in DOMAIN txs : ~NewlyOk(i)
           /\ Len(txs) + 1 \in DOMAIN txs' /\ Len(txs) + 1 \notin DOMAIN txs
           /\ Len(txs) + 1 # 0 /\ Len(txs) \in Nat
           /\ \A i \in DOMAIN txs' : i \in DOMAIN txs \/ i = Len(txs) + 1
           /\ LET t == txs'[Len(txs) + 1] IN
              /\ t.owner = a /\ t.op = job[a].op /\ t.worker = job[a].worker
              /\ t.amount = job[a].amount /\ t.state = "pending"
  <1> DEFINE old == [i \in DOMAIN txs |->
                        IF txs[i].state = "pending"
                        THEN [txs[i] EXCEPT !.state = "dropped"]
                        ELSE txs[i]]
             new == [owner |-> a, op |-> job[a].op, worker |-> job[a].worker,
                     amount |-> job[a].amount, ref |-> job[a].ref, state |-> "pending"]
  <1>1. txs' = Append(old, new)
    BY DEF Sends
  <1>2. txs \in Seq(Tx) /\ DOMAIN txs = 1 .. Len(txs) /\ Len(txs) \in Nat
        /\ \A i \in 1 .. Len(txs) : txs[i] \in Tx
    BY LenProperties, ElementOfSeq DEF Typed, TypeOK
  <1>3. \A t \in Tx : LET u == [t EXCEPT !.state = "dropped"] IN
           /\ u \in Tx /\ u.owner = t.owner /\ u.op = t.op /\ u.worker = t.worker
           /\ u.amount = t.amount /\ u.state = "dropped"
    BY DEF Tx
  <1>4. \A i \in 1 .. Len(txs) :
           /\ old[i].owner = txs[i].owner /\ old[i].op = txs[i].op
           /\ old[i].worker = txs[i].worker /\ old[i].amount = txs[i].amount
           /\ (old[i].state = "ok" <=> txs[i].state = "ok")
    BY <1>2, <1>3
  <1>5. old = [i \in 1 .. Len(txs) |-> old[i]]
    BY <1>2
  <1>6. new.owner = a /\ new.op = job[a].op /\ new.worker = job[a].worker
        /\ new.amount = job[a].amount /\ new.state = "pending"
    OBVIOUS
  <1> DEFINE S == {old[i] : i \in 1 .. Len(txs)} \cup {new}
             g == txs'
  <1>7. old \in Seq(S) /\ Len(old) = Len(txs) /\ DOMAIN old = DOMAIN txs
    <2> HIDE DEF new
    <2>1. \A i \in 1 .. Len(txs) : old[i] \in S
      OBVIOUS
    <2> HIDE DEF old, S
    <2>2. old \in Seq(S)
      BY <1>2, <1>5, <2>1, IsASeq
    <2>3. DOMAIN old = 1 .. Len(txs)
      BY <1>5
    <2>4. Len(old) = Len(txs)
      BY <1>2, <2>2, <2>3, LenProperties
    <2> QED BY <1>2, <2>2, <2>3, <2>4
  <1> HIDE DEF old, new
  <1>8. new \in S
    OBVIOUS
  <1> HIDE DEF S
  <1>9. /\ DOMAIN old = 1 .. Len(old) /\ DOMAIN g = 1 .. Len(old) + 1
        /\ \A i \in DOMAIN old : i \in DOMAIN g /\ g[i] = old[i]
        /\ g[Len(g)] = new /\ Len(g) \in DOMAIN g /\ Len(g) = Len(old) + 1
        /\ \A i \in DOMAIN g : i \in DOMAIN old \/ i = Len(g)
    BY <1>1, <1>7, <1>8, Appended
  <1>10. TxsKept /\ \A i \in DOMAIN txs : ~NewlyOk(i)
    BY <1>2, <1>4, <1>7, <1>9 DEF TxsKept, NewlyOk
  <1>11. Len(txs) + 1 \notin DOMAIN txs /\ Len(txs) + 1 # 0
    BY <1>2
  <1> QED BY <1>2, <1>6, <1>7, <1>9, <1>10, <1>11

LEMMA MinedTxs ==
    ASSUME NEW i, Mined(i)
    PROVE  /\ TxsKept /\ i \in DOMAIN txs /\ txs[i].state = "pending"
           /\ \A k \in DOMAIN txs : NewlyOk(k) => k = i
           /\ DOMAIN txs' = DOMAIN txs
  BY DEF Mined, TxsKept, NewlyOk

LEMMA SameTxs ==
    ASSUME UNCHANGED txs
    PROVE  TxsKept /\ DOMAIN txs' = DOMAIN txs /\ \A k \in DOMAIN txs : ~NewlyOk(k)
  BY DEF TxsKept, NewlyOk

-----------------------------------------------------------------------------
(* TxInv is kept.                                                          *)

LEMMA KeptJobTx ==
    ASSUME TxInv, TxsKept, NEW b \in Actors, job'[b] = job[b]
    PROVE  JobTx(b)'
  <1>1. JobTx(b)
    BY DEF TxInv
  <1>2. Ahead(job[b])' = Ahead(job[b])
    BY DEF Ahead
  <1> QED BY <1>1, <1>2 DEF TxsKept, JobTx

\* A job that goes on with its transaction, past a step that is no wait, or
\* past the wait for a transaction that was executed.
LEMMA OnwardJobTx ==
    ASSUME Typed, TxInv, TxsKept, NEW a \in Actors, job[a] # Idle, NEW s,
           Onward(job[a], job'[a], {s}, job[a].tx),
           s # "send", s # "wait" \/ txs[job[a].tx].state = "ok",
           "send" \notin Ahead(job[a])
    PROVE  JobTx(a)'
  <1>1. JobTx(a)
    BY DEF TxInv
  <1>2. Ahead(job[a])' = Ahead(job[a]) \ {s}
    BY DEF Onward, Ahead
  <1> QED BY <1>1, <1>2 DEF TxsKept, JobTx, Onward

\* A job without a transaction.
LEMMA FreshJobTx ==
    ASSUME NEW a \in Actors, job'[a].tx = 0,
           Enabled /\ job'[a].op \in {"burn", "cert"} => "send" \in Ahead(job[a])'
    PROVE  JobTx(a)'
  BY DEF JobTx

LEMMA IdleJobTx ==
    ASSUME NEW a \in Actors, job'[a] = Idle
    PROVE  JobTx(a)'
  BY DEF JobTx

\* Where the steps of actor a leave its transaction.
LEMMA ContinueJobTx ==
    ASSUME Typed, TxInv, NEW a \in Actors, Continue(a)
    PROVE  TxsKept /\ JobTx(a)'
  <1>1. ASSUME NEW s \in Chain, Step(a, s), OnFailure(a), UNCHANGED txs
        PROVE  TxsKept /\ JobTx(a)'
    <2>1. \/ job'[a] = Idle
          \/ Onward(job[a], job'[a], Chain, 0) /\ job[a].op \in {"signup", "withdraw"}
      BY <1>1, FailureIs
    <2>2. CASE job'[a] = Idle
      BY <1>1, <2>2, IdleJobTx, SameTxs
    <2>3. CASE Onward(job[a], job'[a], Chain, 0) /\ job[a].op \in {"signup", "withdraw"}
      BY <1>1, <2>3, FreshJobTx, SameTxs DEF Onward
    <2> QED BY <2>1, <2>2, <2>3
  <1>2. ASSUME NEW s, Step(a, s), Advance(a), UNCHANGED txs,
               s # "send", s # "wait" \/ txs[job[a].tx].state = "ok"
        PROVE  TxsKept /\ JobTx(a)'
    <2>1. job[a] # Idle /\ "send" \notin Ahead(job[a])
      BY <1>2, StepIs, AheadNow DEF Step, Chain
    <2>2. \/ job'[a] = Idle
          \/ Onward(job[a], job'[a], {s}, job[a].tx)
      BY <1>2, AdvanceIs
    <2> QED BY <1>2, <2>1, <2>2, IdleJobTx, SameTxs, OnwardJobTx
  <1>3. ASSUME NEW s, Step(a, s), Finish(a), UNCHANGED txs
        PROVE  TxsKept /\ JobTx(a)'
    BY <1>3, FinishIs, IdleJobTx, SameTxs
  <1>4. CASE Send(a)
    <2>1. CASE Sends(a)
      <3> DEFINE n == Len(txs) + 1
      <3>1. Onward(job[a], job'[a], {"send"}, n) /\ "wait" \in Ahead(job'[a])
        BY <1>4, <2>1, SendsIs DEF Send
      <3>2. /\ TxsKept /\ n \in DOMAIN txs' /\ n # 0
            /\ txs'[n].owner = a /\ txs'[n].op = job[a].op /\ txs'[n].worker = job[a].worker
            /\ txs'[n].amount = job[a].amount
        BY <2>1, SentTxs
      <3> HIDE DEF n
      <3>3. Ahead(job[a])' = Ahead(job'[a])
        BY DEF Ahead
      <3> QED BY <3>1, <3>2, <3>3 DEF Onward, JobTx
    <2>2. CASE OnFailure(a) /\ UNCHANGED txs
      BY <1>1, <1>4, <2>2 DEF Send, Chain
    <2> QED BY <1>4, <2>1, <2>2 DEF Send, Sends
  <1>5. CASE Receipt(a)
    BY <1>1, <1>2, <1>5 DEF Receipt, token, Chain
  <1>6. CASE Timeout(a)
    BY <1>1, <1>6 DEF Timeout, token, Chain
  <1>7. CASE AddTokens(a) \/ RecordHistory(a)
    BY <1>2, <1>3, <1>7 DEF AddTokens, RecordHistory, token
  <1>8. CASE UseTokens(a)
    BY <1>2, <1>3, <1>8 DEF UseTokens, token
  <1>9. CASE InsertCheckin(a) \/ InsertBonus(a) \/ DrawCertificate(a)
    BY <1>2, <1>9 DEF InsertCheckin, InsertBonus, DrawCertificate, token
  <1>10. CASE CheckMonth(a)
    <2>1. UNCHANGED txs /\ (job'[a] = Idle \/ (job'[a].tx = 0 /\ job'[a].op = "monthly"))
      BY <1>10, CheckMonthIs DEF token
    <2> QED BY <2>1, IdleJobTx, FreshJobTx, SameTxs
  <1>11. CASE DeleteWorker(a)
    BY <1>3, <1>11 DEF DeleteWorker, token
  <1> QED BY <1>4, <1>5, <1>6, <1>7, <1>8, <1>9, <1>10, <1>11 DEF Continue

\* Members stay members, and the balance of those who are none stays empty.
LEMMA TxInvKept ==
    ASSUME Typed, Typed', TxInv, TxsKept, \A b \in Actors : JobTx(b)',
           \A i \in DOMAIN txs' : i \in DOMAIN txs \/
               /\ member'[txs'[i].worker] # "none"
               /\ txs'[i].owner \in Workers => txs'[i].owner = txs'[i].worker,
           \A w \in Workers : member[w] # "none" => member'[w] # "none",
           \A w \in Workers : member[w] = "none" => balance'[w] = balance[w]
    PROVE  TxInv'
  <1>1. \A i \in DOMAIN txs : txs[i].worker \in Workers
    <2>1. DOMAIN txs = 1 .. Len(txs) /\ \A i \in 1 .. Len(txs) : txs[i] \in Tx
      BY LenProperties, ElementOfSeq DEF Typed, TypeOK
    <2> QED BY <2>1 DEF Tx
  <1>2. \A i \in DOMAIN txs' :
           /\ member'[txs'[i].worker] # "none"
           /\ txs'[i].owner \in Workers => txs'[i].owner = txs'[i].worker
    BY <1>1 DEF TxInv, TxsKept
  <1>3. \A w \in Workers : member'[w] = "none" => balance'[w] = 0
    BY DEF TxInv
  <1> QED BY <1>2, <1>3 DEF TxInv

LEMMA ContinueTx ==
    ASSUME Typed, TxInv, NEW a \in Actors, Continue(a)
    PROVE  TxInv'
  <1>1. TxsKept /\ JobTx(a)' /\ Typed'
    BY ContinueJobTx, ContinueTyped
  <1>2. \A b \in Actors : JobTx(b)'
    <2>1. \A b \in Actors : b # a => job'[b] = job[b]
      BY ContinueMoves DEF Moves, Others
    <2> QED BY <1>1, <2>1, KeptJobTx
  <1>3. \A w \in Workers : member[w] # "none" => member'[w] # "none"
    <2>1. CASE DeleteWorker(a)
      BY <2>1, DeleteWorkerIs
    <2>2. CASE ~DeleteWorker(a)
      BY <2>2 DEF Continue, Send, Receipt, Timeout, AddTokens, UseTokens, RecordHistory,
         InsertCheckin, CheckMonth, InsertBonus, DrawCertificate, person
    <2> QED BY <2>1, <2>2
  <1>4. UNCHANGED balance
    BY DEF Continue, Send, Receipt, Timeout, AddTokens, UseTokens, RecordHistory,
       InsertCheckin, CheckMonth, InsertBonus, DrawCertificate, DeleteWorker, token
  <1>5. CASE Send(a) /\ Sends(a)
    <2> DEFINE n == Len(txs) + 1
    <2>1. job[a] # Idle
      BY <1>5, StepIs DEF Send
    <2>2. member'[job[a].worker] # "none" /\ (a \in Workers => a = job[a].worker)
      BY <1>3, <2>1, BusyFields DEF Typed, JobInv, InScript
    <2>3. \A i \in DOMAIN txs' : i \in DOMAIN txs \/
               /\ member'[txs'[i].worker] # "none"
               /\ txs'[i].owner \in Workers => txs'[i].owner = txs'[i].worker
      BY <1>5, <2>2, SentTxs
    <2> QED BY <1>1, <1>2, <1>3, <1>4, <2>3, TxInvKept
  <1>6. CASE UNCHANGED txs
    BY <1>1, <1>2, <1>3, <1>4, <1>6, TxInvKept
  <1>7. UNCHANGED txs \/ (Send(a) /\ Sends(a))
    BY DEF Continue, Send, Sends, Receipt, Timeout, AddTokens, UseTokens, RecordHistory,
       InsertCheckin, CheckMonth, InsertBonus, DrawCertificate, DeleteWorker, token
  <1> QED BY <1>5, <1>6, <1>7

LEMMA AskedTx ==
    ASSUME Typed, TxInv, NEW w \in Workers, Asked(w)
    PROVE  TxInv'
  <1>1. Typed' /\ TxsKept /\ DOMAIN txs' = DOMAIN txs /\ UNCHANGED balance
    BY AskedTyped, SameTxs DEF Asked, token
  <1>2. \A v \in Workers : member[v] # "none" => member'[v] # "none"
    BY DEF Asked
  <1>3. ASSUME NEW b \in Actors PROVE JobTx(b)'
    <2>1. CASE job'[b] = job[b]
      BY <1>1, <2>1, KeptJobTx
    <2>2. CASE job'[b] # job[b]
      <3>1. PICK a \in Actors : Begun(a, w)
        BY <2>2 DEF Asked
      <3>2. b = a
        BY <2>2, <3>1 DEF Begun, Others
      <3> DEFINE k == job'[a]
      <3>3. InScript(k) /\ k.tx = 0 /\ (k.at = 1 \/ k.op = "withdraw")
        BY <3>1 DEF Begun
      <3>4. ASSUME Enabled, k.at = 1 PROVE "send" \in Ahead(k)
        BY <3>3, <3>4, AheadIs DEF ScriptShape, InScript
      <3>5. Ahead(job[a])' = Ahead(k)
        BY DEF Ahead
      <3> QED BY <3>2, <3>3, <3>4, <3>5, FreshJobTx
    <2> QED BY <2>1, <2>2
  <1> QED BY <1>1, <1>2, <1>3, TxInvKept

LEMMA StaysTx ==
    ASSUME Typed, Typed', TxInv, TxsKept, DOMAIN txs' = DOMAIN txs, UNCHANGED member,
           \A b \in Actors : job'[b] = Idle \/ job'[b] = job[b],
           \A w \in Workers : member[w] = "none" => balance'[w] = balance[w]
    PROVE  TxInv'
  BY KeptJobTx, IdleJobTx, TxInvKept

LEMMA StepTx == Typed /\ TxInv /\ [Next]_vars => TxInv'
  <1> SUFFICES ASSUME Typed, TxInv, [Next]_vars PROVE TxInv'
    OBVIOUS
  <1>1. Acts /\ Typed'
    BY NextIs, StepTyped
  <1>2. ASSUME NEW i, Mined(i) PROVE TxInv'
    <2>1. UNCHANGED <<member, job>> /\ TxsKept /\ DOMAIN txs' = DOMAIN txs
      BY <1>2, MinedTxs DEF Mined, person
    <2>2. \A w \in Workers : member[w] = "none" => balance'[w] = balance[w]
      BY <1>2 DEF Mined, TxInv
    <2> QED BY <1>1, <2>1, <2>2, StaysTx
  <1>3. ASSUME NEW w \in Workers, Apply(w) PROVE TxInv'
    BY <1>1, <1>3, SameTxs, StaysTx DEF Apply, token
  <1>4. CASE Crashed
    <2>1. UNCHANGED <<member, txs, balance>> /\ \A b \in Actors : job'[b] = Idle \/ job'[b] = job[b]
      BY <1>4 DEF Crashed, token
    <2> QED BY <1>1, <2>1, SameTxs, StaysTx
  <1>5. CASE NextDay
    BY <1>1, <1>5, SameTxs, StaysTx DEF NextDay, person, token
  <1>6. CASE UNCHANGED vars
    BY <1>1, <1>6, SameTxs, StaysTx DEF vars, person, token
  <1> QED BY <1>1, <1>2, <1>3, <1>4, <1>5, <1>6, ContinueTx, AskedTx DEF Acts

LEMMA InitTx == Init => TxInv
  <1> SUFFICES ASSUME Init PROVE TxInv
    OBVIOUS
  <1>1. DOMAIN txs = {} /\ \A a \in Actors : job[a] = Idle
    BY DEF Init
  <1> QED BY <1>1 DEF Init, TxInv, JobTx

-----------------------------------------------------------------------------
(* The column and the chain.                                               *)

\* What a handler past its call has still to add to or take from the column.
Flow(a, w) ==
    LET j == job[a] IN
    IF j = Idle THEN 0
    ELSE IF j.worker # w THEN 0
    ELSE IF j.tx = 0 THEN 0
    ELSE IF txs[j.tx].state # "ok" THEN 0
    ELSE IF j.op \in Mints /\ "tokens" \in Ahead(j) THEN j.amount
    ELSE IF j.op \in {"burn", "cert"} /\ "use" \in Ahead(j) THEN -j.amount
    ELSE 0

Covered(w) ==
    HasRow(w) => balance[w] + DefaultTokens
                     <= tokens[w] + Flow("api", w) + Flow(w, w) + lost[w]

LEMMA FlowBounds ==
    ASSUME Typed, NEW a \in Actors, NEW v
    PROVE  /\ Flow(a, v) \in Int /\ Flow(a, v) <= Owed(a, v)
           /\ Owed(a, v) \in Nat
           /\ job[a] = Idle => Flow(a, v) = 0
           /\ job[a] # Idle => /\ job[a].worker # v => Flow(a, v) = 0
                               /\ job[a].tx = 0 => Flow(a, v) = 0
                               /\ txs[job[a].tx].state # "ok" => Flow(a, v) = 0
  <1>1. Owed(a, v) \in Nat
    BY OwedNat
  <1>2. CASE job[a] = Idle
    BY <1>1, <1>2 DEF Flow
  <1>3. CASE job[a] # Idle
    <2> DEFINE j == job[a]
    <2>1. InScript(j) /\ j.amount \in Int /\ (j.tx # 0 => j.amount \in Nat)
      BY <1>3, BusyFields DEF Typed, JobInv, InScript, Payable
    <2>2. Ahead(j) = {Script(j.op)[k] : k \in j.at .. Len(Script(j.op))}
      BY <2>1, AheadIs
    <2>3. "tokens" \in Ahead(j) <=> \E k \in j.at .. Len(Script(j.op)) : Script(j.op)[k] = "tokens"
      BY <2>2
    <2>4. Owed(a, v) = IF Minted(j) /\ j.worker = v /\ "tokens" \in Ahead(j) THEN j.amount ELSE 0
      BY <2>3 DEF Owed
    <2> HIDE DEF j
    <2>5. Flow(a, v) = IF j.worker # v THEN 0
             ELSE IF j.tx = 0 THEN 0
             ELSE IF txs[j.tx].state # "ok" THEN 0
             ELSE IF j.op \in Mints /\ "tokens" \in Ahead(j) THEN j.amount
             ELSE IF j.op \in {"burn", "cert"} /\ "use" \in Ahead(j) THEN -j.amount
             ELSE 0
      BY <1>3 DEF Flow, j
    <2>6. Flow(a, v) \in Int /\ Flow(a, v) <= Owed(a, v)
      BY <1>3, <2>1, <2>4, <2>5 DEF Minted, j
    <2> QED BY <1>1, <1>3, <2>5, <2>6 DEF j
  <1> QED BY <1>2, <1>3

LEMMA NextFlow ==
    ASSUME Typed', NEW a \in Actors, NEW v
    PROVE  /\ Flow(a, v)' \in Int
           /\ job'[a] = Idle => Flow(a, v)' = 0
           /\ job'[a] # Idle => /\ job'[a].worker # v => Flow(a, v)' = 0
                                /\ job'[a].tx = 0 => Flow(a, v)' = 0
                                /\ txs'[job'[a].tx].state # "ok" => Flow(a, v)' = 0
  <1>1. CASE job'[a] = Idle
    BY <1>1 DEF Flow
  <1>2. CASE job'[a] # Idle
    <2> DEFINE j == job'[a]
    <2>1. j.amount \in Int
      BY <1>2, BusyFields DEF Typed, JobInv, InScript
    <2> QED BY <1>2, <2>1 DEF Flow
  <1> QED BY <1>1, <1>2

\* The signup thread of one worker is nothing to another.
LEMMA FlowElsewhere ==
    ASSUME Typed, NEW a \in Actors, NEW v \in Workers, a # "api", a # v
    PROVE  Flow(a, v) = 0
  BY Apart, FlowBounds DEF Typed, JobInv

LEMMA FlowSame ==
    ASSUME TxInv, TxsKept, NEW b \in Actors, job'[b] = job[b], NEW v,
           job[b] # Idle => (job[b].tx \in DOMAIN txs => ~NewlyOk(job[b].tx))
    PROVE  Flow(b, v)' = Flow(b, v)
  <1>1. CASE job[b] = Idle
    BY <1>1 DEF Flow
  <1>2. CASE job[b] # Idle
    <2>1. Ahead(job[b])' = Ahead(job[b])
      BY DEF Ahead
    <2>2. CASE job[b].tx = 0
      BY <1>2, <2>2 DEF Flow
    <2>3. CASE job[b].tx # 0
      <3>1. JobTx(b)
        BY DEF TxInv
      <3>2. job[b].tx \in DOMAIN txs
        BY <1>2, <2>3, <3>1 DEF JobTx
      <3>3. txs'[job[b].tx].state = "ok" <=> txs[job[b].tx].state = "ok"
        BY <1>2, <3>2 DEF TxsKept, NewlyOk
      <3> QED BY <1>2, <2>1, <3>3 DEF Flow
    <2> QED BY <2>2, <2>3
  <1> QED BY <1>1, <1>2

\* A step of one actor that loses nothing of v.
LEMMA CoveredStep ==
    ASSUME Typed, Typed', NEW a \in Actors, NEW v \in Workers, HasRow(v), Covered(v),
           UNCHANGED balance, tokens[v] <= tokens'[v] \/ a = "api" \/ a = v,
           lost[v] <= lost'[v],
           \A b \in Actors \ {a} : Flow(b, v)' = Flow(b, v),
           tokens[v] + lost[v] + Flow(a, v) <= tokens'[v] + lost'[v] + Flow(a, v)'
    PROVE  Covered(v)'
  <1>1. /\ balance[v] \in Nat /\ tokens[v] \in Int /\ lost[v] \in Nat
        /\ tokens'[v] \in Int /\ lost'[v] \in Nat
    BY DEF Typed, TypeOK
  <1>2. /\ Flow("api", v) \in Int /\ Flow(v, v) \in Int
        /\ Flow("api", v)' \in Int /\ Flow(v, v)' \in Int
        /\ v # "api"
    BY Apart, FlowBounds, NextFlow
  <1>3. balance[v] + 3 <= tokens[v] + Flow("api", v) + Flow(v, v) + lost[v]
    BY DEF Covered, DefaultTokens
  <1>4. balance[v] + 3 <= tokens'[v] + Flow("api", v)' + Flow(v, v)' + lost'[v]
    <2>1. CASE a = "api"
      <3>1. Flow(v, v)' = Flow(v, v)
        BY <1>2, <2>1, Apart
      <3> QED BY <1>1, <1>2, <1>3, <2>1, <3>1
    <2>2. CASE a = v
      <3>1. Flow("api", v)' = Flow("api", v)
        BY <1>2, <2>2, Apart
      <3> QED BY <1>1, <1>2, <1>3, <2>2, <3>1
    <2>3. CASE a # "api" /\ a # v
      <3>1. Flow("api", v)' = Flow("api", v) /\ Flow(v, v)' = Flow(v, v)
        BY <2>3, Apart
      <3> QED BY <1>1, <1>2, <1>3, <2>3, <3>1
    <2> QED BY <2>1, <2>2, <2>3
  <1> QED BY <1>4 DEF Covered, DefaultTokens

\* A step that leaves the column and the chain alone.
LEMMA AdvanceFlow ==
    ASSUME Typed, NEW a \in Actors, NEW s, Step(a, s), Advance(a),
           UNCHANGED txs, s \notin {"send", "tokens", "use"}, NEW v
    PROVE  Flow(a, v)' = Flow(a, v)
  <1>1. job[a] # Idle
    BY StepIs
  <1>2. CASE job'[a] = Idle /\ Ahead(job[a]) = {s}
    BY <1>1, <1>2 DEF Flow
  <1>3. CASE Onward(job[a], job'[a], {s}, job[a].tx)
    <2>1. Ahead(job[a])' = Ahead(job[a]) \ {s}
      BY <1>3 DEF Ahead, Onward
    <2>2. job'[a] # Idle
      BY <1>3, BusyFields DEF Onward, InScript
    <2> QED BY <1>1, <1>3, <2>1, <2>2 DEF Flow, Onward
  <1> QED BY <1>2, <1>3, AdvanceIs

LEMMA FailureFlow ==
    ASSUME Typed, Typed', NEW a \in Actors, NEW s \in Chain, Step(a, s), OnFailure(a), NEW v
    PROVE  Flow(a, v)' = 0
  <1>1. \/ job'[a] = Idle
        \/ job'[a] # Idle /\ job'[a].tx = 0
    BY FailureIs, BusyFields DEF Onward, InScript
  <1> QED BY <1>1, NextFlow

\* What the steps of a handler do to the column, its flow and what is lost.
FlowsOn(a, v) ==
    /\ tokens[v] + lost[v] + Flow(a, v) <= tokens'[v] + lost'[v] + Flow(a, v)'
    /\ lost[v] <= lost'[v]
    /\ tokens[v] <= tokens'[v] \/ a = "api" \/ a = v

LEMMA FlowsLevel ==
    ASSUME Typed, Typed', NEW a \in Actors, NEW v \in Workers,
           UNCHANGED <<tokens, lost>>, Flow(a, v) <= Flow(a, v)'
    PROVE  FlowsOn(a, v)
  <1>1. tokens[v] \in Int /\ lost[v] \in Nat /\ Flow(a, v) \in Int /\ Flow(a, v)' \in Int
    BY FlowBounds, NextFlow DEF Typed, TypeOK
  <1> QED BY <1>1 DEF FlowsOn

LEMMA ContinueFlows ==
    ASSUME CreditsInv, TxInv, Typed', Enabled, NEW a \in Actors, Continue(a),
           NEW v \in Workers, HasRow(v)'
    PROVE  FlowsOn(a, v) /\ HasRow(v)
  <1> DEFINE w == job[a].worker
             n == job[a].amount
  <1>1. Typed
    BY CreditsInvTyped
  <1>2. /\ tokens[v] \in Int /\ lost[v] \in Nat
        /\ Flow(a, v) \in Int /\ Flow(a, v)' \in Int
        /\ JobTx(a)
    BY <1>1, FlowBounds, NextFlow DEF Typed, TypeOK, TxInv
  <1>3. ASSUME NEW s, Step(a, s), Advance(a), s \notin {"send", "tokens", "use"},
               UNCHANGED <<tokens, lost, txs>>
        PROVE  FlowsOn(a, v)
    <2>1. Flow(a, v)' = Flow(a, v)
      BY <1>1, <1>3, AdvanceFlow
    <2> QED BY <1>1, <1>2, <1>3, <2>1, FlowsLevel
  <1>4. ASSUME NEW s, Step(a, s)
        PROVE  job[a] # Idle /\ w \in Workers /\ (s # "send" => n \in Nat)
    BY <1>1, <1>4, StepIs, BusyFields, PastSend
  <1>5. ASSUME NEW s \in Chain, Step(a, s), OnFailure(a), UNCHANGED <<tokens, lost>>,
               Flow(a, v) = 0
        PROVE  FlowsOn(a, v)
    <2>1. Flow(a, v)' = 0
      BY <1>1, <1>5, FailureFlow
    <2> QED BY <1>1, <1>2, <1>5, <2>1, FlowsLevel
  <1>6. CASE Send(a)
    <2>1. Step(a, "send") /\ "send" \in Chain /\ UNCHANGED <<tokens, lost, member>>
      BY <1>6 DEF Send, Chain, ghosts, person
    <2>2. Flow(a, v) = 0
      <3>1. job[a] # Idle /\ job[a].tx = 0
        BY <1>1, <1>2, <2>1, StepIs DEF JobTx
      <3> QED BY <1>1, <3>1, FlowBounds
    <2>3. CASE Sends(a)
      <3> DEFINE m == Len(txs) + 1
      <3>1. job'[a].tx = m
        BY <1>1, <2>1, <2>3, SendsIs DEF Onward
      <3>2. txs'[m].state = "pending"
        BY <1>1, <2>3, SentTxs
      <3> HIDE DEF m
      <3>3. Flow(a, v)' = 0
        BY <3>1, <3>2, NextFlow
      <3> QED BY <1>1, <2>1, <2>2, <3>3, FlowsLevel DEF HasRow
    <2>4. CASE OnFailure(a)
      BY <1>5, <2>1, <2>2, <2>4 DEF HasRow
    <2> QED BY <1>6, <2>3, <2>4 DEF Send, Sends
  <1>7. CASE Receipt(a)
    <2>1. Step(a, "wait") /\ "wait" \in Chain /\ UNCHANGED <<tokens, lost, member, txs>>
      BY <1>7 DEF Receipt, Chain, ghosts, person, token
    <2>2. CASE Advance(a)
      BY <1>3, <2>1, <2>2 DEF HasRow
    <2>3. CASE txs[job[a].tx].state = "reverted" /\ OnFailure(a)
      <3>1. Flow(a, v) = 0
        BY <1>1, <1>4, <2>1, <2>3, FlowBounds
      <3> QED BY <1>5, <2>1, <2>3, <3>1 DEF HasRow
    <2> QED BY <1>7, <2>2, <2>3 DEF Receipt
  <1>8. CASE Timeout(a)
    <2> DEFINE o == Owed(a, w)
    <2>1. Step(a, "wait") /\ "wait" \in Chain /\ OnFailure(a) /\ UNCHANGED <<tokens, member, txs>>
      BY <1>8 DEF Timeout, Chain, person, token
    <2>2. lost' = [lost EXCEPT ![w] = @ + o]
      BY <1>8 DEF Timeout
    <2>3. Flow(a, v)' = 0
      BY <1>1, <2>1, FailureFlow
    <2>4. o \in Nat /\ Flow(a, w) <= o /\ Flow(a, w) \in Int /\ (v # w => Flow(a, v) = 0)
      BY <1>1, <1>4, <2>1, FlowBounds
    <2>5. lost'[v] = IF v = w THEN lost[v] + o ELSE lost[v]
      <3> HIDE DEF o, w
      <3> QED BY <2>2 DEF Typed, TypeOK
    <2> HIDE DEF o, w
    <2> QED BY <1>2, <2>1, <2>3, <2>4, <2>5 DEF FlowsOn, HasRow
  <1>9. CASE AddTokens(a)
    <2>1. Step(a, "tokens") /\ Advance(a) /\ UNCHANGED <<lost, member, txs>>
          /\ tokens' = IF HasRow(w) THEN [tokens EXCEPT ![w] = @ + n] ELSE tokens
      BY <1>9 DEF AddTokens, person, ghosts, token
    <2>2. HasRow(v)
      BY <2>1 DEF HasRow
    <2>3. tokens'[v] = IF v = w THEN tokens[v] + n ELSE tokens[v]
      <3> HIDE DEF w, n
      <3> QED BY <2>1, <2>2 DEF Typed, TypeOK
    <2>4. job[a].op \in Mints /\ job[a] # Idle
      BY <1>1, <2>1, StepIs, AheadKind
    <2>5. Flow(a, v) <= IF v = w THEN n ELSE 0
      BY <1>4, <2>1, <2>4, Disjoint DEF Flow, Burns
    <2>6. Flow(a, v)' = 0
      <3>1. CASE job'[a] = Idle
        BY <3>1, NextFlow
      <3>2. CASE Onward(job[a], job'[a], {"tokens"}, job[a].tx)
        <4>1. "tokens" \notin Ahead(job[a])' /\ job'[a].op \in Mints
          BY <2>4, <3>2 DEF Onward, Ahead
        <4>2. job'[a].op \notin {"burn", "cert"}
          BY <4>1, Disjoint DEF Burns
        <4> QED BY <4>1, <4>2 DEF Flow
      <3> QED BY <1>1, <2>1, <3>1, <3>2, AdvanceIs
    <2>7. n \in Nat
      BY <1>4, <2>1
    <2> HIDE DEF w, n
    <2> QED BY <1>2, <2>1, <2>2, <2>3, <2>5, <2>6, <2>7 DEF FlowsOn
  <1>10. CASE UseTokens(a)
    <2>1. Step(a, "use") /\ Advance(a) /\ UNCHANGED <<lost, member, txs>>
          /\ \/ tokens' = [tokens EXCEPT ![w] = @ - n]
             \/ tokens' = tokens
      BY <1>10 DEF UseTokens, person, token
    <2>2. HasRow(v)
      BY <2>1 DEF HasRow
    <2>3. tokens'[v] = tokens[v] \/ (v = w /\ tokens'[v] = tokens[v] - n)
      <3> HIDE DEF w, n
      <3> QED BY <2>1, <2>2 DEF Typed, TypeOK
    <2>4. /\ job[a] # Idle /\ "use" \in Ahead(job[a]) /\ a = "api"
          /\ InScript(job[a]) /\ job[a].op \in {"burn", "cert"} /\ job[a].op \notin Mints
          /\ "send" \notin Ahead(job[a]) /\ "wait" \notin Ahead(job[a])
      BY <1>1, <2>1, StepIs, AheadKind, AheadNow, Disjoint DEF Step, Chain, Burns, BonusSteps
    <2>5. job[a].tx # 0 /\ txs[job[a].tx].state = "ok"
      BY <1>2, <2>4 DEF JobTx
    <2>6. Flow(a, v) = IF v = w THEN -n ELSE 0
      BY <2>4, <2>5 DEF Flow
    <2>7. Flow(a, v)' = 0
      <3>1. CASE job'[a] = Idle
        BY <3>1, NextFlow
      <3>2. CASE Onward(job[a], job'[a], {"use"}, job[a].tx)
        <4>1. "use" \notin Ahead(job[a])' /\ job'[a].op \notin Mints
          BY <2>4, <3>2 DEF Onward, Ahead
        <4> QED BY <4>1 DEF Flow
      <3> QED BY <1>1, <2>1, <3>1, <3>2, AdvanceIs
    <2>8. n \in Nat
      BY <1>4, <2>1
    <2> HIDE DEF w, n
    <2> QED BY <1>2, <2>1, <2>2, <2>3, <2>4, <2>6, <2>7, <2>8 DEF FlowsOn
  <1>11. CASE RecordHistory(a)
    <2>1. Step(a, "history") /\ UNCHANGED <<lost, tokens, member, txs>>
      BY <1>11 DEF RecordHistory, person, ghosts, token
    <2>2. CASE Advance(a)
      BY <1>3, <2>1, <2>2 DEF HasRow
    <2>3. CASE Finish(a) /\ ~HasRow(w)
      <3>1. Flow(a, v)' = 0
        BY <1>1, <2>3, FinishIs, NextFlow
      <3>2. HasRow(v) /\ v # w
        BY <2>1, <2>3 DEF HasRow
      <3>3. Flow(a, v) = 0
        BY <1>1, <1>4, <2>1, <3>2, FlowBounds
      <3> QED BY <1>1, <2>1, <3>1, <3>2, <3>3, FlowsLevel
    <2> QED BY <1>11, <2>2, <2>3 DEF RecordHistory
  <1>12. CASE InsertCheckin(a) \/ InsertBonus(a)
    BY <1>3, <1>12 DEF InsertCheckin, InsertBonus, HasRow, person, token, ghosts
  <1>13. CASE CheckMonth(a)
    <2>1. /\ job[a] # Idle /\ UNCHANGED <<tokens, lost, member>>
          /\ Ahead(job[a]) = {"monthly"}
          /\ job'[a] = Idle \/ job'[a].tx = 0
      BY <1>1, <1>13, CheckMonthIs DEF person, ghosts
    <2>2. Flow(a, v) = 0
      BY <2>1 DEF Flow
    <2>3. Flow(a, v)' = 0
      BY <2>1, NextFlow
    <2> QED BY <1>1, <2>1, <2>2, <2>3, FlowsLevel DEF HasRow
  <1>14. CASE DrawCertificate(a)
    <2>1. ~Enabled
      BY <1>1, <1>14, StepIs, AheadKind DEF DrawCertificate
    <2> QED BY <2>1
  <1>15. CASE DeleteWorker(a)
    <2>1. /\ job[a] # Idle /\ job[a].op = "withdraw" /\ job'[a] = Idle /\ UNCHANGED lost
          /\ \/ /\ member' = [x \in Workers |-> IF x = w THEN "gone" ELSE member[x]]
                /\ tokens' = [x \in Workers |-> IF x = w THEN 0 ELSE tokens[x]]
             \/ UNCHANGED <<member, tokens>>
      BY <1>1, <1>15, DeleteWorkerIs
    <2>2. Flow(a, v)' = 0
      BY <2>1, NextFlow
    <2>3. Flow(a, v) = 0
      BY <2>1, Disjoint DEF Flow, Burns
    <2>4. HasRow(v) /\ tokens'[v] = tokens[v]
      BY <2>1 DEF HasRow
    <2> QED BY <1>2, <2>1, <2>2, <2>3, <2>4 DEF FlowsOn
  <1> QED BY <1>6, <1>7, <1>8, <1>9, <1>10, <1>11, <1>12, <1>13, <1>14, <1>15 DEF Continue

\* A handler that waits has everything else of its script before it.
LEMMA AheadWait ==
    ASSUME NEW j, InScript(j), "wait" \in Ahead(j)
    PROVE  /\ j.op \in Mints => "tokens" \in Ahead(j)
           /\ j.op \in {"burn", "cert"} => "use" \in Ahead(j)
           /\ j.op # "withdraw" => "history" \in Ahead(j)
  <1> DEFINE S == Script(j.op)
             L == Len(S)
             at == j.at
  <1>1. /\ Ahead(j) = {S[k] : k \in at .. L} /\ ScriptShape(j.op, S) /\ L \in Nat
        /\ at \in 1 .. L
    BY AheadIs DEF InScript
  <1>2. PICK m \in at .. L : S[m] = "wait"
    BY <1>1
  <1>3. /\ \A i, k \in 1 .. L : S[i] = S[k] => i = k
        /\ S[1] = "send" /\ S[2] = "wait" /\ 3 \in 1 .. L
    BY <1>1, <1>2 DEF ScriptShape, Chain
  <1>4. at \in {1, 2}
    <2>1. 2 \in 1 .. L /\ m \in 1 .. L
      BY <1>1, <1>3
    <2>2. m = 2
      BY <1>2, <1>3, <2>1
    <2> HIDE DEF at, L
    <2> QED BY <1>1, <2>2
  <1>5. ASSUME NEW s, s # "send", NEW k \in 1 .. L, S[k] = s
        PROVE  s \in Ahead(j)
    <2>1. k # 1
      BY <1>3, <1>5
    <2>2. k \in at .. L
      <3> HIDE DEF at, L
      <3> QED BY <1>1, <1>4, <1>5, <2>1
    <2> QED BY <1>1, <1>5, <2>2
  <1> HIDE DEF at
  <1> QED BY <1>1, <1>5 DEF ScriptShape

LEMMA AskedCovered ==
    ASSUME Typed, Typed', TxInv, NEW w \in Workers, Asked(w), NEW v \in Workers, HasRow(v)',
           HasRow(v) => Covered(v)
    PROVE  Covered(v)'
  <1>1. UNCHANGED <<txs, balance, lost>> /\ TxsKept /\ \A k \in DOMAIN txs : ~NewlyOk(k)
    BY SameTxs DEF Asked, token, ghosts
  <1>2. ASSUME NEW b \in Actors PROVE Flow(b, v)' = Flow(b, v)
    <2>1. CASE job'[b] = job[b]
      BY <1>1, <2>1, FlowSame
    <2>2. CASE job'[b] # job[b]
      <3>1. PICK a \in Actors : Begun(a, w)
        BY <2>2 DEF Asked
      <3>2. b = a /\ job[a] = Idle /\ job'[a].tx = 0
        BY <2>2, <3>1 DEF Begun, Others
      <3> QED BY <3>2, FlowBounds, NextFlow
    <2> QED BY <2>1, <2>2
  <1>3. Flow("api", v)' = Flow("api", v) /\ Flow(v, v)' = Flow(v, v)
    BY <1>2, Apart
  <1>4. CASE HasRow(v) /\ tokens'[v] = tokens[v]
    BY <1>1, <1>3, <1>4 DEF Covered
  <1>5. CASE member[v] = "none" /\ tokens'[v] = DefaultTokens
    <2>1. balance[v] = 0 /\ lost[v] \in Nat
      BY <1>5 DEF TxInv, Typed, TypeOK
    <2>2. ASSUME NEW b \in Actors PROVE Flow(b, v) = 0
      <3>1. job[b] # Idle => job[b].worker # v
        BY <1>5 DEF Typed, JobInv
      <3> QED BY <3>1, FlowBounds
    <2>3. Flow("api", v)' = 0 /\ Flow(v, v)' = 0
      BY <1>3, <2>2, Apart
    <2> QED BY <1>1, <1>5, <2>1, <2>3 DEF Covered, DefaultTokens
  <1>6. \/ HasRow(v) /\ tokens'[v] = tokens[v]
        \/ member[v] = "none" /\ tokens'[v] = DefaultTokens
    BY DEF Asked, HasRow
  <1> QED BY <1>4, <1>5, <1>6

LEMMA MinedCovered ==
    ASSUME Typed, Typed', TxInv, NEW i, Mined(i), NEW v \in Workers, HasRow(v), Covered(v)
    PROVE  Covered(v)'
  <1> DEFINE t == txs[i]
             w == t.worker
             o == t.owner
             n == t.amount
             waited == job[o] # Idle /\ job[o].tx = i
  <1>1. /\ i \in DOMAIN txs /\ t \in Tx /\ w \in Workers /\ n \in Nat /\ t.state = "pending"
        /\ UNCHANGED <<tokens, job, member>>
        /\ \A x \in Workers \ {w} : balance'[x] = balance[x] /\ lost'[x] = lost[x]
    BY DEF Mined, person
  <1>2. \/ txs'[i].state # "ok" /\ UNCHANGED <<balance, lost>>
        \/ /\ txs'[i].state = "ok"
           /\ \/ /\ t.op \in Burns /\ balance'[w] = balance[w] - n /\ lost'[w] = lost[w]
              \/ /\ t.op \in Mints
                 /\ balance'[w] = balance[w] + n
                 /\ lost'[w] = IF waited THEN lost[w] ELSE lost[w] + n
    BY DEF Mined
  <1>3. o \in Actors /\ (o \in Workers => o = w) /\ t.op \in Ops
    <2>1. o \in Actors /\ t.op \in Ops
      <3> HIDE DEF t
      <3> QED BY <1>1 DEF Tx, Ops
    <2> QED BY <1>1, <2>1 DEF TxInv
  <1>4. TxsKept /\ \A k \in DOMAIN txs : NewlyOk(k) => k = i
    BY MinedTxs
  <1>5. ASSUME NEW b \in Actors, NEW x, Flow(b, x)' # Flow(b, x)
        PROVE  /\ b = o /\ waited /\ job[b].worker = w /\ job[b].amount = n
               /\ job[b].op = t.op /\ "wait" \in Ahead(job[b]) /\ InScript(job[b])
               /\ txs'[i].state = "ok"
    <2>1. job[b] # Idle /\ job[b].tx \in DOMAIN txs /\ NewlyOk(job[b].tx)
      BY <1>1, <1>4, <1>5, FlowSame
    <2>2. job[b].tx = i /\ JobTx(b)
      BY <1>4, <2>1 DEF TxInv
    <2>3. DOMAIN txs = 1 .. Len(txs) /\ Len(txs) \in Nat
      BY LenProperties DEF Typed, TypeOK
    <2>4. i # 0
      BY <1>1, <2>3
    <2> QED BY <1>1, <2>1, <2>2, <2>4 DEF JobTx, NewlyOk, Typed, JobInv
  <1>6. /\ balance[v] \in Nat /\ tokens[v] \in Int /\ lost[v] \in Nat
        /\ Flow("api", v) \in Int /\ Flow(v, v) \in Int
        /\ Flow("api", v)' \in Int /\ Flow(v, v)' \in Int /\ v # "api"
    BY Apart, FlowBounds, NextFlow DEF Typed, TypeOK
  <1>7. balance[v] + 3 <= tokens[v] + Flow("api", v) + Flow(v, v) + lost[v]
    BY DEF Covered, DefaultTokens
  <1>8. CASE v # w
    <2>1. ASSUME NEW b \in Actors PROVE Flow(b, v)' = Flow(b, v)
      <3>1. job[b] # Idle /\ job[b].worker = w => Flow(b, v) = 0 /\ Flow(b, v)' = 0
        BY <1>1, <1>8, FlowBounds, NextFlow
      <3> QED BY <1>5, <3>1
    <2>2. Flow("api", v)' = Flow("api", v) /\ Flow(v, v)' = Flow(v, v)
      BY <2>1, Apart
    <2> QED BY <1>1, <1>8, <2>2 DEF Covered
  \* The handler that waited owes what was minted, or has spent what was burned.
  <1>9. CASE v = w
    <2>1. ASSUME NEW b \in Actors, Flow(b, v)' # Flow(b, v)
          PROVE  /\ Flow(b, v) = 0
                 /\ t.op \in Mints => Flow(b, v)' = n
                 /\ t.op \in Burns => Flow(b, v)' >= -n
      <3>1. /\ b = o /\ waited /\ job[b].worker = w /\ job[b].amount = n
            /\ job[b].op = t.op /\ "wait" \in Ahead(job[b]) /\ InScript(job[b])
            /\ txs'[i].state = "ok"
        BY <1>5, <2>1
      <3>2. Flow(b, v) = 0
        BY <1>1, <3>1, FlowBounds
      <3>3. i # 0
        <4>1. DOMAIN txs = 1 .. Len(txs) /\ Len(txs) \in Nat
          BY LenProperties DEF Typed, TypeOK
        <4> QED BY <1>1, <4>1
      <3>4. job'[b] = job[b] /\ Ahead(job[b])' = Ahead(job[b])
        BY <1>1 DEF Ahead
      <3>5. t.op \in Mints => "tokens" \in Ahead(job[b])
        BY <3>1, AheadWait
      <3>6. t.op \in Mints => Flow(b, v)' = n
        BY <1>9, <3>1, <3>3, <3>4, <3>5 DEF Flow
      <3>7. t.op \in Burns => Flow(b, v)' >= -n
        <4>1. t.op \in Burns => t.op \notin Mints
          BY Disjoint
        <4>2. t.op \in Burns => Flow(b, v)' = -n \/ Flow(b, v)' = 0
          BY <1>9, <3>1, <3>3, <3>4, <4>1 DEF Flow
        <4> QED BY <1>1, <4>2
      <3> QED BY <3>2, <3>6, <3>7
    <2>2. ASSUME NEW b \in Actors, b = o, waited, txs'[i].state = "ok", t.op \in Mints
          PROVE  Flow(b, v)' = Flow(b, v) + n
      <3>1. JobTx(b)
        BY DEF TxInv
      <3>2. i # 0
        <4>1. DOMAIN txs = 1 .. Len(txs) /\ Len(txs) \in Nat
          BY LenProperties DEF Typed, TypeOK
        <4> QED BY <1>1, <4>1
      <3>3. /\ "wait" \in Ahead(job[b]) /\ job[b].op = t.op /\ job[b].worker = w
            /\ job[b].amount = n /\ InScript(job[b])
        BY <1>1, <2>2, <3>1, <3>2 DEF JobTx, Typed, JobInv
      <3>4. "tokens" \in Ahead(job[b])
        BY <2>2, <3>3, AheadWait
      <3>5. job'[b] = job[b] /\ Ahead(job[b])' = Ahead(job[b])
        BY <1>1 DEF Ahead
      <3>6. Flow(b, v)' = n
        BY <1>9, <2>2, <3>2, <3>3, <3>4, <3>5 DEF Flow
      <3>7. Flow(b, v) = 0
        BY <1>1, <2>2, FlowBounds
      <3> QED BY <1>1, <3>6, <3>7
    <2>3. \A b \in Actors : b # o => Flow(b, v)' = Flow(b, v)
      BY <1>5
    <2>4. CASE txs'[i].state # "ok"
      <3>1. \A b \in Actors : Flow(b, v)' = Flow(b, v)
        BY <1>5, <2>4
      <3>2. Flow("api", v)' = Flow("api", v) /\ Flow(v, v)' = Flow(v, v)
        BY <3>1, Apart
      <3> QED BY <1>1, <1>2, <2>4, <3>2 DEF Covered
    <2>5. CASE txs'[i].state = "ok"
      <3> DEFINE A == Flow("api", v)
                 V == Flow(v, v)
                 A1 == Flow("api", v)'
                 V1 == Flow(v, v)'
      <3>1. t.op \in Burns \/ t.op \in Mints
        BY <1>3, Disjoint
      <3>2. CASE t.op \in Burns
        <4>1. t.op \notin Mints
          BY <3>2, Disjoint
        <4>2. balance'[v] = balance[v] - n /\ lost'[v] = lost[v]
          BY <1>2, <1>9, <2>5, <4>1
        <4>3. A1 = A \/ (A1 >= A - n)
          BY <1>1, <1>6, <2>1, <3>2, Apart
        <4>4. V1 = V \/ (V1 >= V - n)
          BY <1>1, <1>6, <2>1, <3>2, Apart
        <4>5. A1 = A \/ V1 = V
          BY <1>6, <2>3, Apart
        <4> HIDE DEF A, V, A1, V1
        <4>6. balance'[v] + 3 <= tokens[v] + A1 + V1 + lost'[v]
          BY <1>1, <1>6, <1>7, <4>2, <4>3, <4>4, <4>5 DEF A, V, A1, V1
        <4> QED BY <1>1, <4>6 DEF Covered, DefaultTokens, A1, V1
      <3>3. CASE t.op \in Mints
        <4>1. t.op \notin Burns
          BY <3>3, Disjoint
        <4>2. /\ balance'[v] = balance[v] + n
              /\ lost'[v] = IF waited THEN lost[v] ELSE lost[v] + n
          BY <1>2, <1>9, <2>5, <4>1
        <4>3. /\ A1 = A \/ (o = "api" /\ waited)
              /\ V1 = V \/ (o = v /\ waited)
          BY <1>5, Apart
        <4>4. /\ waited /\ o = "api" => A1 = A + n
              /\ waited /\ o = v => V1 = V + n
              /\ o = "api" \/ o = v
          BY <1>3, <1>9, <2>2, <2>5, <3>3, Apart
        <4>5. waited => A1 + V1 = A + V + n
          <5>1. A \in Int /\ V \in Int /\ A1 \in Int /\ V1 \in Int /\ n \in Nat /\ v # "api"
            BY <1>1, <1>6
          <5> HIDE DEF A, V, A1, V1, waited, n, o
          <5> QED BY <4>3, <4>4, <5>1
        <4>6. ~waited => A1 = A /\ V1 = V
          BY <4>3
        <4> HIDE DEF A, V, A1, V1, waited
        <4>7. balance'[v] + 3 <= tokens[v] + A1 + V1 + lost'[v]
          BY <1>1, <1>6, <1>7, <4>2, <4>5, <4>6 DEF A, V, A1, V1
        <4> QED BY <1>1, <4>7 DEF Covered, DefaultTokens, A1, V1
      <3> QED BY <3>1, <3>2, <3>3
    <2> QED BY <2>4, <2>5
  <1> QED BY <1>8, <1>9

Accounted == Enabled => \A w \in Workers : Covered(w)

LEMMA CrashedCovered ==
    ASSUME Typed, Typed', TxInv, Crashed, NEW v \in Workers, HasRow(v), Covered(v)
    PROVE  Covered(v)'
  <1>1. PICK p \in {"api", "wbot"} :
           /\ \A a \in Actors : job'[a] = IF job[a] # Idle /\ (IF p = "api" THEN a = "api" ELSE a \in Workers)
                                          THEN Idle ELSE job[a]
           /\ \A w \in Workers : lost'[w] = IF p = "api" THEN lost[w] + Owed("api", w)
                                            ELSE lost[w] + Owed(w, w)
           /\ UNCHANGED <<member, tokens, txs, balance>>
    BY DEF Crashed, token
  <1>2. /\ balance[v] \in Nat /\ tokens[v] \in Int /\ lost[v] \in Nat
        /\ Flow("api", v) \in Int /\ Flow(v, v) \in Int
        /\ Flow("api", v)' \in Int /\ Flow(v, v)' \in Int /\ v # "api"
        /\ Flow("api", v) <= Owed("api", v) /\ Flow(v, v) <= Owed(v, v)
        /\ Owed("api", v) \in Nat /\ Owed(v, v) \in Nat
    BY Apart, FlowBounds, NextFlow DEF Typed, TypeOK
  <1>3. balance[v] + 3 <= tokens[v] + Flow("api", v) + Flow(v, v) + lost[v]
    BY DEF Covered, DefaultTokens
  <1>4. ASSUME NEW b \in Actors
        PROVE  /\ job'[b] = Idle => Flow(b, v)' = 0
               /\ job'[b] = job[b] => Flow(b, v)' = Flow(b, v)
    <2>1. TxsKept /\ \A k \in DOMAIN txs : ~NewlyOk(k)
      BY <1>1, SameTxs
    <2> QED BY <2>1, FlowSame, NextFlow
  <1>5. CASE p = "api"
    <2>1. Flow("api", v)' = 0
      BY <1>1, <1>4, <1>5, Apart
    <2>2. Flow(v, v)' = Flow(v, v)
      BY <1>1, <1>2, <1>4, <1>5, Apart
    <2>3. lost'[v] = lost[v] + Owed("api", v)
      BY <1>1, <1>5
    <2>4. balance[v] + 3 <= tokens[v] + Flow("api", v)' + Flow(v, v)' + lost'[v]
      BY <1>2, <1>3, <2>1, <2>2, <2>3
    <2> QED BY <1>1, <2>4 DEF Covered, DefaultTokens
  <1>6. CASE p # "api"
    <2>1. Flow(v, v)' = 0
      BY <1>1, <1>4, <1>6, Apart
    <2>2. Flow("api", v)' = Flow("api", v)
      BY <1>1, <1>2, <1>4, <1>6, Apart
    <2>3. lost'[v] = lost[v] + Owed(v, v)
      BY <1>1, <1>6
    <2>4. balance[v] + 3 <= tokens[v] + Flow("api", v)' + Flow(v, v)' + lost'[v]
      BY <1>2, <1>3, <2>1, <2>2, <2>3
    <2> QED BY <1>1, <2>4 DEF Covered, DefaultTokens
  <1> QED BY <1>5, <1>6

LEMMA StillCovered ==
    ASSUME TxInv, UNCHANGED <<member, tokens, token, job, lost>>, NEW v \in Workers, Covered(v)
    PROVE  Covered(v)'
  <1>1. TxsKept /\ \A k \in DOMAIN txs : ~NewlyOk(k)
    BY SameTxs DEF token
  <1>2. Flow("api", v)' = Flow("api", v) /\ Flow(v, v)' = Flow(v, v)
    BY <1>1, Apart, FlowSame DEF token
  <1> QED BY <1>2 DEF Covered, HasRow, token

LEMMA ContinueCovered ==
    ASSUME CreditsInv, TxInv, Typed', Enabled, NEW a \in Actors, Continue(a),
           NEW v \in Workers, HasRow(v)', Covered(v)
    PROVE  Covered(v)'
  <1>1. Typed
    BY CreditsInvTyped
  <1>2. FlowsOn(a, v) /\ HasRow(v)
    BY ContinueFlows
  <1>3. UNCHANGED balance
    BY DEF Continue, Send, Receipt, Timeout, AddTokens, UseTokens, RecordHistory,
       InsertCheckin, CheckMonth, InsertBonus, DrawCertificate, DeleteWorker, token
  <1>4. \A b \in Actors \ {a} : job'[b] = job[b]
    BY <1>1, ContinueMoves DEF Moves, Others
  <1>5. TxsKept /\ \A k \in DOMAIN txs : ~NewlyOk(k)
    <2>1. CASE UNCHANGED txs
      BY <2>1, SameTxs
    <2>2. CASE Sends(a)
      BY <1>1, <2>2, SentTxs
    <2>3. UNCHANGED txs \/ Sends(a)
      BY DEF Continue, Send, Sends, Receipt, Timeout, AddTokens, UseTokens, RecordHistory,
         InsertCheckin, CheckMonth, InsertBonus, DrawCertificate, DeleteWorker, token
    <2> QED BY <2>1, <2>2, <2>3
  <1>6. \A b \in Actors \ {a} : Flow(b, v)' = Flow(b, v)
    BY <1>4, <1>5, FlowSame
  <1> QED BY <1>1, <1>2, <1>3, <1>6, CoveredStep DEF FlowsOn

LEMMA StepAccounted == CreditsInv /\ TxInv /\ Accounted /\ [Next]_vars => Accounted'
  <1> SUFFICES ASSUME CreditsInv, TxInv, Accounted, [Next]_vars, Enabled,
                      NEW v \in Workers, HasRow(v)'
               PROVE  Covered(v)'
    BY DEF Accounted, Covered
  <1>1. Typed /\ Typed' /\ Acts /\ Covered(v)
    BY CreditsInvTyped, NextIs, StepTyped DEF Accounted
  <1>2. ASSUME NEW a \in Actors, Continue(a) PROVE Covered(v)'
    BY <1>1, <1>2, ContinueCovered
  <1>3. ASSUME NEW w \in Workers, Asked(w) PROVE Covered(v)'
    BY <1>1, <1>3, AskedCovered
  <1>4. ASSUME NEW i, Mined(i) PROVE Covered(v)'
    <2>1. HasRow(v)
      BY <1>4 DEF Mined, person, HasRow
    <2> QED BY <1>1, <1>4, <2>1, MinedCovered
  <1>5. ASSUME NEW w \in Workers, Apply(w) PROVE Covered(v)'
    BY <1>1, <1>5, StillCovered DEF Apply, ghosts
  <1>6. CASE Crashed
    <2>1. HasRow(v)
      BY <1>6 DEF Crashed, HasRow
    <2> QED BY <1>1, <1>6, <2>1, CrashedCovered
  <1>7. CASE NextDay
    BY <1>1, <1>7, StillCovered DEF NextDay, person, ghosts
  <1>8. CASE UNCHANGED vars
    BY <1>1, <1>8, StillCovered DEF vars, person, token, ghosts
  <1> QED BY <1>1, <1>2, <1>3, <1>4, <1>5, <1>6, <1>7, <1>8 DEF Acts

LEMMA TxInvHolds == Spec => []TxInv
  <1> QED BY InitTx, StepTx, TypedAlways, PTL DEF Spec

\* However calls to the chain time out, revert, are replaced or are mined
\* after their handler has gone, and whichever process dies: the tokens column
\* never promises less than the chain holds, beyond what was minted for a
\* handler that did not see it (mint_credits, add_tokens, use_token).
THEOREM ChainIsCovered == Spec => []CreditsAccounted
  <1>1. Init => Accounted
    BY DEF Init, Accounted, Covered, HasRow
  <1>2. Spec => []Accounted
    BY <1>1, StepAccounted, CreditsInvHolds, TxInvHolds, PTL DEF Spec
  <1>3. CreditsInv /\ Accounted => CreditsAccounted
    <2> SUFFICES ASSUME CreditsInv, Accounted, Enabled, NEW w \in Workers, HasRow(w)
                 PROVE  balance[w] + DefaultTokens
                            <= tokens[w] + Owed("api", w) + Owed(w, w) + lost[w]
      BY DEF CreditsAccounted
    <2>1. Typed
      BY CreditsInvTyped
    <2>2. balance[w] + 3 <= tokens[w] + Flow("api", w) + Flow(w, w) + lost[w]
      BY DEF Accounted, Covered, DefaultTokens
    <2>3. /\ balance[w] \in Nat /\ tokens[w] \in Int /\ lost[w] \in Nat
          /\ Flow("api", w) \in Int /\ Flow(w, w) \in Int
          /\ Flow("api", w) <= Owed("api", w) /\ Flow(w, w) <= Owed(w, w)
          /\ Owed("api", w) \in Nat /\ Owed(w, w) \in Nat
      BY <2>1, Apart, FlowBounds DEF Typed, TypeOK
    <2> QED BY <2>2, <2>3 DEF DefaultTokens
  <1> QED BY <1>2, <1>3, CreditsInvHolds, PTL

-----------------------------------------------------------------------------
(* Rows and transactions.  Two jobs never share a transaction, and a job   *)
(* with the history still before it has not been recorded.                 *)

Named(w) ==
    /\ \A i \in DOMAIN history[w] :
          LET row == history[w][i] IN
          row.tx # 0 =>
             /\ row.tx \in DOMAIN txs
             /\ txs[row.tx].state = "ok" /\ txs[row.tx].worker = w
             /\ row.amount = (IF txs[row.tx].op \in Burns THEN -1 ELSE 1) * txs[row.tx].amount
             /\ \A k \in DOMAIN history[w] : k # i => history[w][k].tx # row.tx
    /\ \A row \in checkins[w] :
          row.tx # 0 => /\ row.tx \in DOMAIN txs
                        /\ txs[row.tx].state = "ok" /\ txs[row.tx].amount = row.amount

Unnamed(a, w) ==
    LET j == job[a] IN
    j # Idle /\ j.worker = w /\ j.tx # 0 /\ "history" \in Ahead(j)
        => \A i \in DOMAIN history[w] : history[w][i].tx # j.tx

ChainInv == \A w \in Workers : Named(w) /\ \A a \in Actors : Unnamed(a, w)

LEMMA NamedKept ==
    ASSUME TxsKept, NEW w \in Workers, Named(w), history'[w] = history[w],
           \A row \in checkins'[w] : row \in checkins[w] \/
              (row.tx # 0 => /\ row.tx \in DOMAIN txs
                             /\ txs[row.tx].state = "ok" /\ txs[row.tx].amount = row.amount)
    PROVE  Named(w)'
  <1>1. \A i \in DOMAIN history'[w] :
          LET row == history'[w][i] IN
          row.tx # 0 =>
             /\ row.tx \in DOMAIN txs'
             /\ txs'[row.tx].state = "ok" /\ txs'[row.tx].worker = w
             /\ row.amount = (IF txs'[row.tx].op \in Burns THEN -1 ELSE 1) * txs'[row.tx].amount
             /\ \A k \in DOMAIN history'[w] : k # i => history'[w][k].tx # row.tx
    BY DEF Named, TxsKept
  <1>2. \A row \in checkins'[w] :
          row.tx # 0 => /\ row.tx \in DOMAIN txs'
                        /\ txs'[row.tx].state = "ok" /\ txs'[row.tx].amount = row.amount
    BY DEF Named, TxsKept
  <1> QED BY <1>1, <1>2 DEF Named

LEMMA UnnamedKept ==
    ASSUME NEW a \in Actors, NEW w, Unnamed(a, w), history'[w] = history[w],
           \/ job'[a] = Idle \/ job'[a] = job[a] \/ job'[a].tx = 0
           \/ job[a] # Idle /\ \E S : Onward(job[a], job'[a], S, job[a].tx)
    PROVE  Unnamed(a, w)'
  <1>1. CASE job'[a] = job[a]
    <2>1. Ahead(job[a])' = Ahead(job[a])
      BY <1>1 DEF Ahead
    <2> QED BY <1>1, <2>1 DEF Unnamed
  <1>2. CASE job[a] # Idle /\ \E S : Onward(job[a], job'[a], S, job[a].tx)
    <2>1. Ahead(job[a])' \subseteq Ahead(job[a])
      BY <1>2 DEF Ahead, Onward
    <2> QED BY <1>2, <2>1 DEF Unnamed, Onward
  <1> QED BY <1>1, <1>2 DEF Unnamed

\* What becomes of the job of an actor that goes on.
LEMMA ContinueJob ==
    ASSUME Typed, NEW a \in Actors, Continue(a)
    PROVE  /\ Others(a) /\ job[a] # Idle
           /\ \/ job'[a] = Idle \/ job'[a].tx = 0
              \/ \E S : Onward(job[a], job'[a], S, job[a].tx)
              \/ Step(a, "send") /\ Sends(a)
  <1>1. Others(a) /\ job[a] # Idle
    BY ContinueMoves DEF Moves
  <1>2. ASSUME NEW s \in Chain, Step(a, s), OnFailure(a)
        PROVE  job'[a] = Idle \/ job'[a].tx = 0
    BY <1>2, FailureIs DEF Onward
  <1>3. ASSUME NEW s, s # "send", Step(a, s), Advance(a)
        PROVE  job'[a] = Idle \/ \E S : Onward(job[a], job'[a], S, job[a].tx)
    BY <1>3, AdvanceIs
  <1>4. ASSUME Finish(a) PROVE job'[a] = Idle
    BY <1>4, FinishIs
  <1>5. CASE Send(a) \/ Receipt(a) \/ Timeout(a)
    BY <1>1, <1>2, <1>3, <1>5 DEF Send, Sends, Receipt, Timeout, Chain
  <1>6. CASE AddTokens(a) \/ RecordHistory(a) \/ InsertCheckin(a) \/ InsertBonus(a)
             \/ DrawCertificate(a) \/ DeleteWorker(a)
    BY <1>1, <1>3, <1>4, <1>6 DEF AddTokens, RecordHistory, InsertCheckin, InsertBonus,
       DrawCertificate, DeleteWorker
  <1>7. CASE UseTokens(a)
    BY <1>1, <1>3, <1>4, <1>7 DEF UseTokens
  <1>8. CASE CheckMonth(a)
    BY <1>1, <1>8, CheckMonthIs
  <1> QED BY <1>5, <1>6, <1>7, <1>8 DEF Continue

\* A row that names the transaction of the job that adds it.
LEMMA RowNamed ==
    ASSUME Typed, TxInv, NEW a \in Actors, NEW s, Step(a, s), s \notin Chain
    PROVE  LET j == job[a] IN
           j.tx # 0 => /\ j.tx \in DOMAIN txs /\ txs[j.tx].state = "ok"
                       /\ txs[j.tx].worker = j.worker /\ txs[j.tx].op = j.op
                       /\ txs[j.tx].amount = j.amount /\ txs[j.tx].owner = a
  <1>1. job[a] # Idle /\ "wait" \notin Ahead(job[a]) /\ JobTx(a)
    BY StepIs, AheadNow DEF Step, TxInv
  <1> QED BY <1>1 DEF JobTx

LEMMA RecordHistoryChain ==
    ASSUME Typed, TxInv, ChainInv, NEW a \in Actors, RecordHistory(a), NEW v \in Workers
    PROVE  Named(v)' /\ \A b \in Actors : Unnamed(b, v)'
  <1> DEFINE j == job[a]
             w == j.worker
             row == RowOf(j)
             h == history[w]
             g == history'[w]
  <1>1. /\ Step(a, "history") /\ w \in Workers /\ j \in Busy
        /\ row \in HistoryRow /\ h \in Seq(HistoryRow)
        /\ UNCHANGED <<checkins, txs>>
    BY RecordHistoryIs DEF token
  <1>2. Named(v) /\ TxsKept /\ \A b \in Actors : Unnamed(b, v)
    BY <1>1, SameTxs DEF ChainInv
  <1>3. /\ \A b \in Actors \ {a} : job'[b] = job[b]
        /\ \/ job'[a] = Idle
           \/ Onward(job[a], job'[a], {"history"}, job[a].tx)
    BY <1>1, AdvanceIs, FinishIs, RecordHistoryIs DEF Others
  <1>4. CASE history'[v] = history[v]
    <2>1. Named(v)'
      BY <1>1, <1>2, <1>4, NamedKept
    <2>2. job[a] # Idle
      BY <1>1, StepIs
    <2> QED BY <1>2, <1>3, <1>4, <2>1, <2>2, UnnamedKept
  <1>5. CASE history'[v] # history[v]
    <2>1. v = w /\ g = Append(h, row)
      BY <1>5, RecordHistoryIs
    <2>2. /\ \A i \in DOMAIN h : i \in DOMAIN g /\ g[i] = h[i] /\ i # Len(g)
          /\ g[Len(g)] = row /\ Len(g) \in DOMAIN g
          /\ \A i \in DOMAIN g : i \in DOMAIN h \/ i = Len(g)
      <3> HIDE DEF h, g, row
      <3> QED BY <1>1, <2>1, Appended
    <2>3. /\ row.tx = j.tx
          /\ row.amount = IF j.op \in Burns THEN -j.amount ELSE j.amount
      BY DEF RowOf
    <2>4. j.tx # 0 =>
             /\ j.tx \in DOMAIN txs /\ txs[j.tx].state = "ok" /\ txs[j.tx].worker = w
             /\ row.amount = (IF txs[j.tx].op \in Burns THEN -1 ELSE 1) * txs[j.tx].amount
             /\ txs[j.tx].owner = a
      <3>1. j.amount \in Int
        BY <1>1, BusyFields
      <3> QED BY <1>1, <2>3, <3>1, RowNamed DEF Chain
    <2>5. j.tx # 0 => \A i \in DOMAIN h : h[i].tx # j.tx
      BY <1>1, <1>2, <2>1, StepIs DEF Unnamed
    <2>6. ASSUME NEW i \in DOMAIN g, g[i].tx # 0
          PROVE  /\ g[i].tx \in DOMAIN txs
                 /\ txs[g[i].tx].state = "ok" /\ txs[g[i].tx].worker = w
                 /\ g[i].amount = (IF txs[g[i].tx].op \in Burns THEN -1 ELSE 1) * txs[g[i].tx].amount
                 /\ \A k \in DOMAIN g : k # i => g[k].tx # g[i].tx
      <3>1. \A m \in DOMAIN h : h[m].tx # 0 =>
                 /\ h[m].tx \in DOMAIN txs
                 /\ txs[h[m].tx].state = "ok" /\ txs[h[m].tx].worker = w
                 /\ h[m].amount = (IF txs[h[m].tx].op \in Burns THEN -1 ELSE 1) * txs[h[m].tx].amount
                 /\ \A k \in DOMAIN h : k # m => h[k].tx # h[m].tx
        BY <1>2, <2>1 DEF Named
      <3> HIDE DEF h, g, row, w
      <3>2. CASE i \in DOMAIN h
        BY <2>2, <2>3, <2>5, <2>6, <3>1, <3>2
      <3>3. CASE i = Len(g)
        BY <2>2, <2>3, <2>4, <2>5, <2>6, <3>3
      <3> QED BY <2>2, <3>2, <3>3
    <2>7. Named(v)'
      <3>1. v = w /\ g = history'[v] /\ txs' = txs /\ checkins' = checkins
        BY <1>1, <2>1
      <3>2. \A r \in checkins[v] :
               r.tx # 0 => /\ r.tx \in DOMAIN txs
                           /\ txs[r.tx].state = "ok" /\ txs[r.tx].amount = r.amount
        BY <1>2 DEF Named
      <3> HIDE DEF g, h, row, w
      <3> QED BY <2>6, <3>1, <3>2 DEF Named
    <2>8. ASSUME NEW b \in Actors PROVE Unnamed(b, v)'
      <3>1. CASE b = a
        <4>1. job'[a] # Idle => "history" \notin Ahead(job[a])'
          BY <1>3 DEF Onward, Ahead
        <4> QED BY <3>1, <4>1 DEF Unnamed
      <3>2. CASE b # a
        <4>1. job'[b] = job[b] /\ Ahead(job[b])' = Ahead(job[b])
          BY <1>3, <3>2 DEF Ahead
        <4>2. SUFFICES ASSUME job[b] # Idle, job[b].worker = v, job[b].tx # 0,
                              "history" \in Ahead(job[b]), NEW i \in DOMAIN g
                       PROVE  g[i].tx # job[b].tx
          BY <2>1, <4>1 DEF Unnamed
        <4>3. CASE i \in DOMAIN h
          BY <1>2, <2>1, <2>2, <4>2, <4>3 DEF Unnamed
        <4>4. CASE i = Len(g)
          <5>1. JobTx(b)
            BY DEF TxInv
          <5>2. txs[job[b].tx].owner = b
            BY <4>2, <5>1 DEF JobTx
          <5> HIDE DEF h, g, row, w
          <5> QED BY <2>2, <2>3, <2>4, <3>2, <4>2, <4>4, <5>2
        <4> QED BY <2>2, <4>3, <4>4
      <3> QED BY <3>1, <3>2
    <2> QED BY <2>7, <2>8
  <1> QED BY <1>4, <1>5

LEMMA ContinueChain ==
    ASSUME Typed, TxInv, ChainInv, NEW a \in Actors, Continue(a), NEW v \in Workers
    PROVE  Named(v)' /\ \A b \in Actors : Unnamed(b, v)'
  <1>1. Named(v) /\ TxsKept /\ \A b \in Actors : Unnamed(b, v)
    BY ContinueJobTx DEF ChainInv
  <1>2. /\ Others(a) /\ job[a] # Idle
        /\ \/ job'[a] = Idle \/ job'[a].tx = 0
           \/ \E S : Onward(job[a], job'[a], S, job[a].tx)
           \/ Step(a, "send") /\ Sends(a)
    BY ContinueJob
  <1>3. ASSUME history'[v] = history[v]
        PROVE  \A b \in Actors : Unnamed(b, v)'
    <2>1. \A b \in Actors \ {a} : Unnamed(b, v)'
      BY <1>1, <1>2, <1>3, UnnamedKept DEF Others
    <2>2. CASE ~(Step(a, "send") /\ Sends(a))
      BY <1>1, <1>2, <1>3, <2>1, <2>2, UnnamedKept
    <2>3. CASE Step(a, "send") /\ Sends(a)
      <3> DEFINE n == Len(txs) + 1
      <3>1. job'[a].tx = n
        BY <2>3, SendsIs DEF Onward
      <3>2. n \notin DOMAIN txs /\ n # 0
        BY <2>3, SentTxs
      <3> HIDE DEF n
      <3>3. Unnamed(a, v)'
        BY <1>1, <1>3, <3>1, <3>2 DEF Unnamed, Named
      <3> QED BY <2>1, <3>3
    <2> QED BY <2>2, <2>3
  <1>4. CASE RecordHistory(a)
    BY <1>4, RecordHistoryChain
  <1>5. CASE InsertCheckin(a)
    <2> DEFINE w == job[a].worker
               row == CheckinOf(job[a])
    <2>1. /\ Step(a, "checkin") /\ UNCHANGED history
          /\ checkins'[w] = checkins[w] \cup {row}
          /\ \A x \in Workers \ {w} : checkins'[x] = checkins[x]
      BY <1>5, InsertCheckinIs
    <2>2. row.tx = job[a].tx /\ row.amount = job[a].amount
      BY DEF CheckinOf
    <2>3. row.tx # 0 => /\ row.tx \in DOMAIN txs
                        /\ txs[row.tx].state = "ok" /\ txs[row.tx].amount = row.amount
      BY <2>1, <2>2, RowNamed DEF Chain
    <2> HIDE DEF row
    <2>4. Named(v)'
      BY <1>1, <2>1, <2>3, NamedKept
    <2> QED BY <1>3, <2>1, <2>4
  <1>6. CASE DeleteWorker(a)
    <2> DEFINE w == job[a].worker
    <2>1. \/ /\ history' = [x \in Workers |-> IF x = w THEN <<>> ELSE history[x]]
             /\ checkins' = [x \in Workers |-> IF x = w THEN {} ELSE checkins[x]]
          \/ UNCHANGED <<history, checkins>>
      BY <1>6, DeleteWorkerIs
    <2> HIDE DEF w
    <2>2. CASE history'[v] = history[v] /\ checkins'[v] = checkins[v]
      BY <1>1, <1>3, <2>2, NamedKept
    <2>3. CASE history'[v] = <<>> /\ checkins'[v] = {}
      <3>1. DOMAIN <<>> = {}
        OBVIOUS
      <3> QED BY <2>3, <3>1 DEF Named, Unnamed
    <2> QED BY <2>1, <2>2, <2>3
  <1>7. CASE UNCHANGED <<history, checkins>>
    BY <1>1, <1>3, <1>7, NamedKept
  <1> QED BY <1>4, <1>5, <1>6, <1>7 DEF Continue, Send, Receipt, Timeout, AddTokens, UseTokens,
         CheckMonth, InsertBonus, DrawCertificate, rows

\* Whoever is not at work on a handler leaves the rows alone.
LEMMA StaysChain ==
    ASSUME ChainInv, TxsKept, UNCHANGED <<history, checkins>>,
           \A b \in Actors : job'[b] = Idle \/ job'[b] = job[b] \/ job'[b].tx = 0
    PROVE  ChainInv'
  <1> SUFFICES ASSUME NEW w \in Workers
               PROVE  Named(w)' /\ \A a \in Actors : Unnamed(a, w)'
    BY DEF ChainInv
  <1>1. Named(w) /\ \A a \in Actors : Unnamed(a, w)
    BY DEF ChainInv
  <1> QED BY <1>1, NamedKept, UnnamedKept

LEMMA StepChain == Typed /\ TxInv /\ ChainInv /\ [Next]_vars => ChainInv'
  <1> SUFFICES ASSUME Typed, TxInv, ChainInv, [Next]_vars PROVE ChainInv'
    OBVIOUS
  <1>1. Acts
    BY NextIs
  <1>2. ASSUME NEW a \in Actors, Continue(a) PROVE ChainInv'
    BY <1>2, ContinueChain DEF ChainInv
  <1>3. ASSUME NEW w \in Workers, Asked(w) PROVE ChainInv'
    <2>1. TxsKept /\ UNCHANGED <<history, checkins>>
      BY <1>3, SameTxs DEF Asked, rows, token
    <2>2. \A b \in Actors : job'[b] = job[b] \/ job'[b].tx = 0
      BY <1>3 DEF Asked, Begun, Others
    <2> QED BY <2>1, <2>2, StaysChain
  <1>4. ASSUME NEW i, Mined(i) PROVE ChainInv'
    BY <1>4, MinedTxs, StaysChain DEF Mined, rows
  <1>5. ASSUME NEW w \in Workers, Apply(w) PROVE ChainInv'
    BY <1>5, SameTxs, StaysChain DEF Apply, rows, token
  <1>6. CASE Crashed
    <2>1. TxsKept /\ UNCHANGED <<history, checkins>>
      BY <1>6, SameTxs DEF Crashed, rows, token
    <2>2. \A b \in Actors : job'[b] = job[b] \/ job'[b] = Idle
      BY <1>6 DEF Crashed
    <2> QED BY <2>1, <2>2, StaysChain
  <1>7. CASE NextDay
    BY <1>7, SameTxs, StaysChain DEF NextDay, rows, token
  <1>8. CASE UNCHANGED vars
    BY <1>8, SameTxs, StaysChain DEF vars, rows, token
  <1> QED BY <1>1, <1>2, <1>3, <1>4, <1>5, <1>6, <1>7, <1>8 DEF Acts

LEMMA InitChain == Init => ChainInv
  <1> SUFFICES ASSUME Init, NEW w \in Workers
               PROVE  Named(w) /\ \A a \in Actors : Unnamed(a, w)
    BY DEF ChainInv
  <1>1. DOMAIN history[w] = {} /\ checkins[w] = {} /\ \A a \in Actors : job[a] = Idle
    BY DEF Init
  <1> QED BY <1>1 DEF Named, Unnamed

\* However handlers, the signup threads, blocks and crashes interleave: a row
\* of credit_history or daily_checkins that names a transaction names an
\* executed one of the same worker, amount and direction, and no two history
\* rows name the same one (create_credit_history, create_daily_checkin).
THEOREM RowsAreOnChain == Spec => []HistoryOnChain
  <1>1. Spec => []ChainInv
    BY InitChain, StepChain, TypedAlways, TxInvHolds, PTL DEF Spec
  <1>2. ChainInv => HistoryOnChain
    BY DEF ChainInv, Named, HistoryOnChain
  <1> QED BY <1>1, <1>2, PTL

-----------------------------------------------------------------------------
(* The column and its history.                                             *)

\* What a handler has entered in the column and not yet in the history, or
\* the other way round: what is before it counts with the opposite sign.
Part(a, w, s) ==
    IF job[a] = Idle THEN 0
    ELSE IF job[a].worker = w /\ s \in Ahead(job[a]) THEN job[a].amount ELSE 0

Lead(a, w) ==
    IF job[a] = Idle THEN 0
    ELSE IF job[a].op \in Mints THEN Part(a, w, "history") - Part(a, w, "tokens")
    ELSE IF job[a].op \in {"burn", "cert"} THEN Part(a, w, "use") - Part(a, w, "history")
    ELSE 0

Explained(w) ==
    HasRow(w) /\ w \notin broken
        => tokens[w] = DefaultTokens + Total(w) + Lead("api", w) + Lead(w, w)

LEMMA LeadBounds ==
    ASSUME Typed, NEW a \in Actors, NEW v
    PROVE  /\ Lead(a, v) \in Int
           /\ job[a] = Idle => Lead(a, v) = 0
           /\ job[a].worker # v => Lead(a, v) = 0
           /\ "tokens" \in Ahead(job[a]) /\ "history" \in Ahead(job[a])
                 /\ job[a].op \in Mints => Lead(a, v) = 0
           /\ "use" \in Ahead(job[a]) /\ "history" \in Ahead(job[a])
                 /\ job[a].op \in {"burn", "cert"} => Lead(a, v) = 0
           /\ job[a].op = "withdraw" => Lead(a, v) = 0
  <1>1. CASE job[a] = Idle
    BY <1>1 DEF Lead
  <1>2. CASE job[a] # Idle
    <2>1. job[a].amount \in Int /\ job[a].op \in Ops
      BY <1>2, BusyFields DEF Typed, JobInv, InScript
    <2> DEFINE n == job[a].amount
    <2>2. /\ Part(a, v, "tokens") = IF job[a].worker = v /\ "tokens" \in Ahead(job[a]) THEN n ELSE 0
          /\ Part(a, v, "history") = IF job[a].worker = v /\ "history" \in Ahead(job[a]) THEN n ELSE 0
          /\ Part(a, v, "use") = IF job[a].worker = v /\ "use" \in Ahead(job[a]) THEN n ELSE 0
      BY <1>2 DEF Part
    <2> HIDE DEF n
    <2>3. n \in Int
      BY <2>1 DEF n
    <2>4. job[a].op = "withdraw" => job[a].op \notin Mints
      BY DEF Mints
    <2>5. job[a].op \in {"burn", "cert"} => job[a].op \notin Mints
      BY Disjoint DEF Burns
    <2> QED BY <1>2, <2>2, <2>3, <2>4, <2>5 DEF Lead
  <1> QED BY <1>1, <1>2

LEMMA NextLead ==
    ASSUME Typed', NEW a \in Actors, NEW v
    PROVE  /\ Lead(a, v)' \in Int
           /\ job'[a] = Idle => Lead(a, v)' = 0
           /\ job'[a].worker # v => Lead(a, v)' = 0
           /\ "tokens" \in Ahead(job'[a]) /\ "history" \in Ahead(job'[a])
                 /\ job'[a].op \in Mints => Lead(a, v)' = 0
           /\ "use" \in Ahead(job'[a]) /\ "history" \in Ahead(job'[a])
                 /\ job'[a].op \in {"burn", "cert"} => Lead(a, v)' = 0
           /\ job'[a].op = "withdraw" => Lead(a, v)' = 0
  <1>0. Ahead(job[a])' = Ahead(job'[a])
    BY DEF Ahead
  <1>1. CASE job'[a] = Idle
    BY <1>1 DEF Lead
  <1>2. CASE job'[a] # Idle
    <2>1. job'[a].amount \in Int
      BY <1>2, BusyFields DEF Typed, JobInv, InScript
    <2> DEFINE n == job'[a].amount
    <2>2. /\ Part(a, v, "tokens")' = IF job'[a].worker = v /\ "tokens" \in Ahead(job'[a]) THEN n ELSE 0
          /\ Part(a, v, "history")' = IF job'[a].worker = v /\ "history" \in Ahead(job'[a]) THEN n ELSE 0
          /\ Part(a, v, "use")' = IF job'[a].worker = v /\ "use" \in Ahead(job'[a]) THEN n ELSE 0
      BY <1>0, <1>2 DEF Part
    <2> HIDE DEF n
    <2>3. n \in Int
      BY <2>1 DEF n
    <2>4. job'[a].op = "withdraw" => job'[a].op \notin Mints
      BY DEF Mints
    <2>5. job'[a].op \in {"burn", "cert"} => job'[a].op \notin Mints
      BY Disjoint DEF Burns
    <2> QED BY <1>2, <2>2, <2>3, <2>4, <2>5 DEF Lead
  <1> QED BY <1>1, <1>2

LEMMA LeadSame ==
    ASSUME NEW b, NEW v, job'[b] = job[b]
    PROVE  Lead(b, v)' = Lead(b, v)
  <1>1. Ahead(job[b])' = Ahead(job[b])
    BY DEF Ahead
  <1> QED BY <1>1 DEF Lead, Part

\* The job goes on past the steps S, one of which may have changed the column
\* or the history.
LEMMA LeadOnward ==
    ASSUME Typed, NEW a \in Actors, job[a] # Idle, NEW S, NEW n,
           \/ job'[a] = Idle /\ Ahead(job[a]) \subseteq S
           \/ Onward(job[a], job'[a], S, n),
           NEW v
    PROVE  LET j == job[a]
               gone(s) == IF j.worker = v /\ s \in S /\ s \in Ahead(j) THEN j.amount ELSE 0
           IN /\ j.op \in Mints => Lead(a, v)' = Lead(a, v) - gone("history") + gone("tokens")
              /\ j.op \in {"burn", "cert"} => Lead(a, v)' = Lead(a, v) - gone("use") + gone("history")
              /\ j.op = "withdraw" => Lead(a, v)' = 0 /\ Lead(a, v) = 0
  <1> DEFINE j == job[a]
             m == j.amount
             A == Ahead(j)
             P(s) == IF j.worker = v /\ s \in A THEN m ELSE 0
             Q(s) == IF j.worker = v /\ s \in A /\ s \notin S THEN m ELSE 0
  <1>1. m \in Int
    BY BusyFields DEF Typed, JobInv, InScript
  <1>2. j.op \in {"burn", "cert"} => j.op \notin Mints
    BY Disjoint DEF Burns
  <1>3. /\ j.op \in Mints => Lead(a, v) = P("history") - P("tokens")
        /\ j.op \in {"burn", "cert"} => Lead(a, v) = P("use") - P("history")
        /\ j.op = "withdraw" => Lead(a, v) = 0
    BY <1>2 DEF Lead, Part, Mints
  <1>4. /\ j.op \in Mints => Lead(a, v)' = Q("history") - Q("tokens")
        /\ j.op \in {"burn", "cert"} => Lead(a, v)' = Q("use") - Q("history")
        /\ j.op = "withdraw" => Lead(a, v)' = 0
    <2>1. CASE job'[a] = Idle /\ A \subseteq S
      BY <2>1 DEF Lead
    <2>2. CASE Onward(job[a], job'[a], S, n)
      <3>1. Ahead(job[a])' = A \ S /\ job'[a] # Idle
        BY <2>2, BusyFields DEF Onward, Ahead, InScript
      <3> QED BY <1>2, <2>2, <3>1 DEF Lead, Part, Mints, Onward
    <2> QED BY <2>1, <2>2
  <1> HIDE DEF m, A
  <1> QED BY <1>1, <1>3, <1>4 DEF m, A

\* Steps that touch neither of them leave the lead.
LEMMA LeadPassed ==
    ASSUME Typed, NEW a \in Actors, job[a] # Idle, NEW S, NEW n,
           \/ job'[a] = Idle /\ Ahead(job[a]) \subseteq S
           \/ Onward(job[a], job'[a], S, n),
           "tokens" \notin S, "use" \notin S, "history" \notin S, NEW v,
           Lead(a, v) \in Int
    PROVE  Lead(a, v)' = Lead(a, v)
  <1> DEFINE op == job[a].op
             j == job[a]
             gone(s) == IF j.worker = v /\ s \in S /\ s \in Ahead(j) THEN j.amount ELSE 0
  <1>1. gone("history") = 0 /\ gone("tokens") = 0 /\ gone("use") = 0
    OBVIOUS
  <1>2. /\ op \in Mints => Lead(a, v)' = Lead(a, v) - gone("history") + gone("tokens")
        /\ op \in {"burn", "cert"} => Lead(a, v)' = Lead(a, v) - gone("use") + gone("history")
        /\ op = "withdraw" => Lead(a, v)' = 0 /\ Lead(a, v) = 0
    BY LeadOnward
  <1>3. op \in Mints \/ op \in {"burn", "cert"} \/ op = "withdraw"
    <2>1. job[a] \in Busy
      BY DEF Typed, JobInv, InScript
    <2>2. op \in Ops
      BY <2>1, BusyFields
    <2> QED BY <2>2 DEF Ops, Burns
  <1>4. /\ op \in Mints => Lead(a, v)' = Lead(a, v) - 0 + 0
        /\ op \in {"burn", "cert"} => Lead(a, v)' = Lead(a, v) - 0 + 0
        /\ op = "withdraw" => Lead(a, v)' = 0 /\ Lead(a, v) = 0
    <2> HIDE DEF gone
    <2> QED BY <1>1, <1>2
  <1> QED BY <1>3, <1>4

\* What a handler changes in the column, the history and its own lead agrees.
Balances(a, v) ==
    tokens'[v] - Total(v)' - Lead(a, v)' = tokens[v] - Total(v) - Lead(a, v)

LEMMA TotalInt ==
    ASSUME Typed, NEW v \in Workers
    PROVE  Total(v) \in Int
  <1> DEFINE h == history[v]
             n == Len(h)
             f == [i \in DOMAIN h |-> h[i].amount]
  <1>1. h \in Seq(HistoryRow)
    BY DEF Typed, TypeOK
  <1>2. DOMAIN h = 1 .. n /\ n \in Nat /\ \A i \in 1 .. n : h[i] \in HistoryRow
    <2> HIDE DEF h
    <2> QED BY <1>1, LenProperties, ElementOfSeq
  <1> HIDE DEF n
  <1>3. \A i \in 1 .. n : f[i] \in Int
    <2>1. \A r \in HistoryRow : r.amount \in Int
      BY DEF HistoryRow
    <2> QED BY <1>2, <2>1
  <1> HIDE DEF f
  <1>4. FirstSum(f, n) \in Int
    BY <1>2, <1>3, FirstSumType
  <1> QED BY <1>4 DEF Total, f, n, h

LEMMA TotalSame ==
    ASSUME NEW v, history'[v] = history[v]
    PROVE  Total(v)' = Total(v)
  BY DEF Total

LEMMA TotalAppended ==
    ASSUME Typed, NEW v \in Workers, NEW row \in HistoryRow, history'[v] = Append(history[v], row)
    PROVE  Total(v)' = Total(v) + row.amount
  <1> DEFINE h == history[v]
             g == history'[v]
             n == Len(h)
             e == [i \in DOMAIN h |-> h[i].amount]
             f == [i \in DOMAIN g |-> g[i].amount]
  <1>1. h \in Seq(HistoryRow)
    BY DEF Typed, TypeOK
  <1>2. /\ Len(g) = n + 1 /\ n \in Nat
        /\ DOMAIN h = 1 .. n /\ DOMAIN g = 1 .. n + 1
        /\ \A i \in DOMAIN h : g[i] = h[i]
        /\ g[n + 1] = row
    <2> HIDE DEF h, g
    <2>1. /\ Len(g) = Len(h) + 1 /\ Len(h) \in Nat
          /\ DOMAIN h = 1 .. Len(h) /\ DOMAIN g = 1 .. Len(h) + 1
          /\ \A i \in DOMAIN h : g[i] = h[i]
          /\ g[Len(g)] = row
      BY <1>1, Appended DEF h, g
    <2> QED BY <2>1
  <1> HIDE DEF n
  <1>3. \A i \in 1 .. n : f[i] = e[i]
    BY <1>2
  <1>4. f[n + 1] = row.amount
    BY <1>2
  <1> HIDE DEF e, f
  <1>5. FirstSum(f, n) = FirstSum(e, n)
    BY <1>2, <1>3, FirstSumEqual
  <1>6. FirstSum(f, n + 1) = FirstSum(f, n) + f[n + 1]
    BY <1>2, FirstSumNext
  <1>7. Total(v) = FirstSum(e, n) /\ Total(v)' = FirstSum(f, n + 1)
    BY <1>2 DEF Total, e, f, h, g, n
  <1> QED BY <1>4, <1>5, <1>6, <1>7

\* Without the token contract the use of tokens is a handler's first step.
LEMMA UseFirst ==
    ASSUME ~Enabled, NEW j, InScript(j), Script(j.op)[j.at] = "use"
    PROVE  "history" \in Ahead(j)
  <1> DEFINE S == Script(j.op)
             L == Len(S)
             at == j.at
  <1>1. ScriptShape(j.op, S) /\ L \in Nat /\ at \in 1 .. L /\ j.op \in Ops
    BY AheadIs, BusyFields DEF InScript
  <1>2. j.op \in {"burn", "cert"}
    BY <1>1 DEF ScriptShape
  <1>3. S = Tables(j.op)
    BY <1>2 DEF Script
  <1>4. S[1] = "use"
    BY <1>2, <1>3 DEF Tables
  <1>5. 1 \in 1 .. L
    BY <1>1
  <1>6. at = 1
    BY <1>1, <1>4, <1>5 DEF ScriptShape
  <1> QED BY <1>2, <1>6, AheadFirst

\* At the call to the chain the column and the history are still to come.
LEMMA CallLead ==
    ASSUME Typed, NEW a \in Actors, NEW s \in Chain, Step(a, s), NEW v
    PROVE  Lead(a, v) = 0
  <1>1. job[a] # Idle /\ InScript(job[a]) /\ s \in Ahead(job[a]) /\ job[a].op \in Ops
        /\ Script(job[a].op)[job[a].at] = s
    BY StepIs, BusyFields DEF Step, InScript
  <1>2. /\ job[a].op \in Mints => "tokens" \in Ahead(job[a])
        /\ job[a].op \in {"burn", "cert"} => "use" \in Ahead(job[a])
        /\ job[a].op # "withdraw" => "history" \in Ahead(job[a])
    BY <1>1, AheadNow, AheadFirst, AheadWait DEF Chain
  <1>3. job[a].op \in Mints \/ job[a].op \in {"burn", "cert"} \/ job[a].op = "withdraw"
    BY <1>1 DEF Ops, Burns
  <1> QED BY <1>2, <1>3, LeadBounds DEF Mints

LEMMA ContinueBalances ==
    ASSUME Typed, Typed', NEW a \in Actors, Continue(a),
           NEW v \in Workers, HasRow(v)', v \notin broken'
    PROVE  Balances(a, v) /\ HasRow(v) /\ v \notin broken
  <1> DEFINE w == job[a].worker
             n == job[a].amount
             j == job[a]
  <1>1. /\ tokens[v] \in Int /\ Lead(a, v) \in Int /\ Lead(a, v)' \in Int
        /\ Total(v) \in Int
    BY LeadBounds, NextLead, TotalInt DEF Typed, TypeOK
  <1>2. ASSUME NEW s, Step(a, s)
        PROVE  job[a] # Idle /\ w \in Workers /\ n \in Int /\ j.op \in Ops
    BY <1>2, StepIs, BusyFields
  <1>3. ASSUME NEW s, Step(a, s), Advance(a),
               s \notin {"send", "tokens", "use", "history"}, UNCHANGED <<tokens, history>>
        PROVE  Balances(a, v)
    <2>1. job[a] # Idle /\ j.op \in Ops
      BY <1>2, <1>3
    <2>2. \/ job'[a] = Idle /\ Ahead(job[a]) \subseteq {s}
          \/ Onward(job[a], job'[a], {s}, job[a].tx)
      BY <1>3, AdvanceIs
    <2>3. Lead(a, v)' = Lead(a, v)
      <3> DEFINE S == {s}
      <3>1. "tokens" \notin S /\ "use" \notin S /\ "history" \notin S
        BY <1>3
      <3> HIDE DEF S
      <3>2. \/ job'[a] = Idle /\ Ahead(job[a]) \subseteq S
            \/ Onward(job[a], job'[a], S, job[a].tx)
        BY <2>2 DEF S
      <3> QED BY <1>1, <2>1, <3>1, <3>2, LeadPassed
    <2> QED BY <1>3, <2>3, TotalSame DEF Balances
  <1>4. ASSUME NEW s \in Chain, Step(a, s), OnFailure(a), UNCHANGED <<tokens, history>>
        PROVE  Balances(a, v)
    <2>1. Lead(a, v) = 0
      BY <1>4, CallLead
    <2>2. CASE job'[a] = Idle
      <3>1. Lead(a, v)' = 0
        BY <2>2, NextLead
      <3> QED BY <1>4, <2>1, <3>1, TotalSame DEF Balances
    <2>3. CASE Onward(job[a], job'[a], Chain, 0)
      <3>1. job[a] # Idle /\ j.op \in Ops
        BY <1>2, <1>4
      <3>2. "tokens" \notin Chain /\ "use" \notin Chain /\ "history" \notin Chain
        BY DEF Chain
      <3>4. Lead(a, v)' = Lead(a, v)
        <4> DEFINE none == 0
        <4>1. Onward(job[a], job'[a], Chain, none)
          BY <2>3
        <4> HIDE DEF none
        <4> QED BY <1>1, <3>1, <3>2, <4>1, LeadPassed
      <3> QED BY <1>4, <3>4, TotalSame DEF Balances
    <2> QED BY <1>4, <2>2, <2>3, FailureIs
  <1>5. CASE Send(a)
    <2>1. Step(a, "send") /\ "send" \in Chain /\ UNCHANGED <<tokens, history, member, broken>>
      BY <1>5 DEF Send, Chain, ghosts, person, rows
    <2>2. CASE Sends(a)
      <3> DEFINE m == Len(txs) + 1
      <3>1. Onward(job[a], job'[a], {"send"}, m) /\ job[a] # Idle /\ j.op \in Ops
        BY <1>2, <2>1, <2>2, SendsIs
      <3> HIDE DEF m
      <3>4. Lead(a, v)' = Lead(a, v)
        <4> DEFINE S == {"send"}
        <4>1. "tokens" \notin S /\ "use" \notin S /\ "history" \notin S
          OBVIOUS
        <4>2. Onward(job[a], job'[a], S, m)
          BY <3>1
        <4> HIDE DEF S
        <4> QED BY <1>1, <3>1, <4>1, <4>2, LeadPassed
      <3> QED BY <2>1, <3>4, TotalSame DEF Balances, HasRow
    <2>3. CASE OnFailure(a)
      BY <1>4, <2>1, <2>3 DEF HasRow
    <2> QED BY <1>5, <2>2, <2>3 DEF Send, Sends
  <1>6. CASE Receipt(a) \/ Timeout(a)
    <2>1. Step(a, "wait") /\ "wait" \in Chain /\ UNCHANGED <<tokens, history, member, broken>>
          /\ (Advance(a) \/ OnFailure(a))
      BY <1>6 DEF Receipt, Timeout, Chain, ghosts, person, rows
    <2> QED BY <1>3, <1>4, <2>1 DEF HasRow
  <1>7. CASE AddTokens(a)
    <2>1. Step(a, "tokens") /\ Advance(a) /\ UNCHANGED <<history, member, broken>>
          /\ tokens' = IF HasRow(w) THEN [tokens EXCEPT ![w] = @ + n] ELSE tokens
      BY <1>7 DEF AddTokens, person, ghosts, rows
    <2>2. HasRow(v) /\ v \notin broken
      BY <2>1 DEF HasRow
    <2>3. tokens'[v] = IF v = w THEN tokens[v] + n ELSE tokens[v]
      <3> HIDE DEF w, n
      <3> QED BY <2>1, <2>2 DEF Typed, TypeOK
    <2>4. j.op \in Mints /\ j # Idle /\ "tokens" \in Ahead(j)
      BY <2>1, StepIs, AheadKind
    <2>5. \/ job'[a] = Idle /\ Ahead(job[a]) \subseteq {"tokens"}
          \/ Onward(job[a], job'[a], {"tokens"}, job[a].tx)
      BY <2>1, AdvanceIs
    <2>6. Lead(a, v)' = Lead(a, v) - 0 + (IF v = w THEN n ELSE 0)
      BY <2>4, <2>5, LeadOnward
    <2>7. n \in Int
      BY <1>2, <2>1
    <2> HIDE DEF w, n, j
    <2> QED BY <1>1, <2>1, <2>2, <2>3, <2>6, <2>7, TotalSame DEF Balances
  <1>8. CASE UseTokens(a)
    <2>1. Step(a, "use") /\ UNCHANGED <<history, member>>
      BY <1>8 DEF UseTokens, person, rows
    <2>2. j.op \in {"burn", "cert"} /\ j # Idle /\ "use" \in Ahead(j) /\ InScript(j)
          /\ Script(j.op)[j.at] = "use" /\ w \in Workers /\ n \in Int
      BY <1>2, <2>1, StepIs, AheadKind DEF Step
    <2>3. HasRow(v)
      BY <2>1 DEF HasRow
    <2>4. CASE tokens' = [tokens EXCEPT ![w] = @ - n] /\ Advance(a) /\ UNCHANGED broken
      <3>1. tokens'[v] = IF v = w THEN tokens[v] - n ELSE tokens[v]
        <4> HIDE DEF w, n
        <4> QED BY <2>4 DEF Typed, TypeOK
      <3>2. \/ job'[a] = Idle /\ Ahead(job[a]) \subseteq {"use"}
            \/ Onward(job[a], job'[a], {"use"}, job[a].tx)
        BY <2>1, <2>4, AdvanceIs
      <3>3. Lead(a, v)' = Lead(a, v) - (IF v = w THEN n ELSE 0) + 0
        BY <2>2, <3>2, LeadOnward
      <3> HIDE DEF w, n, j
      <3> QED BY <1>1, <2>1, <2>2, <2>3, <2>4, <3>1, <3>3, TotalSame DEF Balances
    <2>5. CASE UNCHANGED tokens /\ Enabled /\ Advance(a) /\ broken' = broken \cup {w}
      <3>1. v # w
        BY <2>5
      <3>2. \/ job'[a] = Idle /\ Ahead(job[a]) \subseteq {"use"}
            \/ Onward(job[a], job'[a], {"use"}, job[a].tx)
        BY <2>1, <2>5, AdvanceIs
      <3>3. Lead(a, v)' = Lead(a, v) - 0 + 0
        BY <2>2, <3>1, <3>2, LeadOnward
      <3> HIDE DEF w, n, j
      <3> QED BY <1>1, <2>1, <2>3, <2>5, <3>3, TotalSame DEF Balances
    <2>6. CASE UNCHANGED <<tokens, broken>> /\ ~Enabled /\ Finish(a)
      <3>1. "history" \in Ahead(j)
        BY <2>2, <2>6, UseFirst
      <3>2. Lead(a, v) = 0
        BY <2>2, <3>1, LeadBounds
      <3>3. Lead(a, v)' = 0
        BY <2>6, FinishIs, NextLead
      <3> QED BY <2>1, <2>3, <2>6, <3>2, <3>3, TotalSame DEF Balances
    <2> QED BY <1>8, <2>4, <2>5, <2>6 DEF UseTokens
  <1>9. CASE RecordHistory(a)
    <2>1. /\ Step(a, "history") /\ RowOf(j) \in HistoryRow
          /\ UNCHANGED <<tokens, member, broken>>
          /\ w \in Workers /\ n \in Int /\ j # Idle /\ j.op \in Ops
      BY <1>2, <1>9, RecordHistoryIs DEF person, ghosts
    <2>2. HasRow(v) /\ v \notin broken
      BY <2>1 DEF HasRow
    <2>3. "history" \in Ahead(j) /\ j.op # "withdraw"
      BY <2>1, StepIs, AheadKind
    <2>4. (j.op \in Mints /\ j.op \notin Burns) \/ (j.op \in {"burn", "cert"} /\ j.op \in Burns /\ j.op \notin Mints)
      BY <2>1, <2>3, Disjoint DEF Ops, Burns
    <2>5. CASE ~HasRow(w) /\ Finish(a) /\ UNCHANGED history
      <3>1. v # w
        BY <2>2, <2>5
      <3>2. Lead(a, v) = 0
        BY <3>1, LeadBounds
      <3>3. Lead(a, v)' = 0
        BY <2>5, FinishIs, NextLead
      <3> QED BY <2>1, <2>2, <2>5, <3>2, <3>3, TotalSame DEF Balances
    <2>6. CASE /\ HasRow(w) /\ Advance(a)
               /\ history'[w] = Append(history[w], RowOf(j))
               /\ \A x \in Workers \ {w} : history'[x] = history[x]
      <3>1. \/ job'[a] = Idle /\ Ahead(job[a]) \subseteq {"history"}
            \/ Onward(job[a], job'[a], {"history"}, job[a].tx)
        BY <2>1, <2>6, AdvanceIs
      <3>2. /\ j.op \in Mints => Lead(a, v)' = Lead(a, v) - (IF v = w THEN n ELSE 0) + 0
            /\ j.op \in {"burn", "cert"} => Lead(a, v)' = Lead(a, v) - 0 + (IF v = w THEN n ELSE 0)
        BY <2>1, <2>3, <3>1, LeadOnward
      <3>3. CASE v = w
        <4>1. Total(v)' = Total(v) + RowOf(j).amount
          BY <2>1, <2>6, <3>3, TotalAppended
        <4>2. RowOf(j).amount = IF j.op \in Burns THEN -n ELSE n
          BY DEF RowOf
        <4>3. Total(v)' + Lead(a, v)' = Total(v) + Lead(a, v) /\ Total(v)' \in Int
          <5> HIDE DEF w, n, j
          <5> QED BY <1>1, <2>1, <2>4, <3>2, <3>3, <4>1, <4>2
        <4> QED BY <1>1, <2>1, <2>2, <4>3 DEF Balances
      <3>4. CASE v # w
        <4>1. Total(v)' = Total(v)
          BY <2>6, <3>4, TotalSame
        <4>2. Lead(a, v)' = Lead(a, v)
          BY <1>1, <2>4, <3>2, <3>4
        <4> QED BY <2>1, <2>2, <4>1, <4>2 DEF Balances
      <3> QED BY <3>3, <3>4
    <2> QED BY <1>9, <2>5, <2>6, RecordHistoryIs
  <1>10. CASE InsertCheckin(a) \/ InsertBonus(a)
    BY <1>3, <1>10 DEF InsertCheckin, InsertBonus, HasRow, person, ghosts
  <1>11. CASE CheckMonth(a)
    <2>1. /\ Ahead(j) = {"monthly"} /\ w \in Workers
          /\ UNCHANGED <<tokens, history, member, broken>>
          /\ \/ job'[a] = Idle
             \/ InScript(job'[a]) /\ job'[a].op = "monthly" /\ job'[a].at = 1
      BY <1>11, CheckMonthIs DEF person, ghosts, rows
    <2>2. Lead(a, v) = 0
      BY <2>1 DEF Lead, Part
    <2>3. Lead(a, v)' = 0
      <3>1. "monthly" \in Mints
        BY DEF Mints
      <3> QED BY <2>1, <3>1, AheadFirst, NextLead
    <2> QED BY <2>1, <2>2, <2>3, TotalSame DEF Balances, HasRow
  <1>12. CASE DrawCertificate(a)
    <2>1. Step(a, "pdf") /\ Advance(a) /\ UNCHANGED <<history, member>>
          /\ \/ UNCHANGED <<tokens, broken>>
             \/ tokens' = [tokens EXCEPT ![w] = @ + 1] /\ broken' = broken \cup {w}
      BY <1>12 DEF DrawCertificate, person, rows
    <2>2. tokens'[v] = tokens[v] /\ v \notin broken
      <3> HIDE DEF w
      <3> QED BY <2>1 DEF Typed, TypeOK
    <2>3. Ahead(j) = {"pdf"}
      BY <2>1, StepIs, AheadNow DEF Step
    <2>4. Lead(a, v) = 0
      BY <2>3 DEF Lead, Part
    <2>5. Lead(a, v)' = 0
      <3>1. CASE job'[a] = Idle
        BY <3>1, NextLead
      <3>2. CASE Onward(job[a], job'[a], {"pdf"}, job[a].tx)
        <4>1. Ahead(job[a])' = {}
          BY <2>3, <3>2 DEF Onward, Ahead
        <4> QED BY <4>1 DEF Lead, Part
      <3> QED BY <2>1, <3>1, <3>2, AdvanceIs
    <2> QED BY <2>1, <2>2, <2>4, <2>5, TotalSame DEF Balances, HasRow
  <1>13. CASE DeleteWorker(a)
    <2>1. /\ job[a].op = "withdraw" /\ job'[a] = Idle
          /\ \/ /\ member' = [x \in Workers |-> IF x = w THEN "gone" ELSE member[x]]
                /\ tokens' = [x \in Workers |-> IF x = w THEN 0 ELSE tokens[x]]
                /\ history' = [x \in Workers |-> IF x = w THEN <<>> ELSE history[x]]
                /\ UNCHANGED broken
             \/ /\ broken' = broken \cup {w}
                /\ UNCHANGED <<member, tokens, history>>
      BY <1>13, DeleteWorkerIs
    <2>2. Lead(a, v)' = 0 /\ Lead(a, v) = 0
      BY <2>1, LeadBounds, NextLead
    <2>3. HasRow(v) /\ tokens'[v] = tokens[v] /\ history'[v] = history[v] /\ v \notin broken
      BY <2>1 DEF HasRow
    <2> QED BY <2>2, <2>3, TotalSame DEF Balances
  <1> QED BY <1>5, <1>6, <1>7, <1>8, <1>9, <1>10, <1>11, <1>12, <1>13 DEF Continue

Ledger == \A w \in Workers : Explained(w)

LEMMA ExplainedStep ==
    ASSUME Typed, Typed', NEW a \in Actors, NEW v \in Workers, Explained(v),
           HasRow(v), v \notin broken, Balances(a, v),
           \A b \in Actors \ {a} : job'[b] = job[b]
    PROVE  Explained(v)'
  <1>1. /\ tokens[v] \in Int /\ Total(v) \in Int /\ v # "api"
        /\ Lead("api", v) \in Int /\ Lead(v, v) \in Int
        /\ Lead("api", v)' \in Int /\ Lead(v, v)' \in Int
        /\ tokens'[v] \in Int
    BY Apart, TotalInt, LeadBounds, NextLead DEF Typed, TypeOK
  <1>2. tokens[v] = 3 + Total(v) + Lead("api", v) + Lead(v, v)
    BY DEF Explained, DefaultTokens
  <1>3. Total(v)' \in Int
    <2>1. \A x \in Workers : history'[x] \in Seq(HistoryRow)
      BY DEF Typed, TypeOK
    <2> DEFINE h == history'[v]
               n == Len(h)
               f == [i \in DOMAIN h |-> h[i].amount]
    <2>2. DOMAIN h = 1 .. n /\ n \in Nat /\ \A i \in 1 .. n : h[i] \in HistoryRow
      <3>1. h \in Seq(HistoryRow)
        BY <2>1
      <3> HIDE DEF h
      <3> QED BY <3>1, LenProperties, ElementOfSeq
    <2> HIDE DEF n
    <2>3. \A i \in 1 .. n : f[i] \in Int
      <3>1. \A r \in HistoryRow : r.amount \in Int
        BY DEF HistoryRow
      <3> QED BY <2>2, <3>1
    <2> HIDE DEF f
    <2>4. FirstSum(f, n) \in Int
      BY <2>2, <2>3, FirstSumType
    <2> QED BY <2>4 DEF Total, f, n, h
  <1>4. tokens'[v] = 3 + Total(v)' + Lead("api", v)' + Lead(v, v)'
    <2>1. CASE a = "api"
      <3>1. Lead(v, v)' = Lead(v, v)
        BY <1>1, <2>1, Apart, LeadSame
      <3> QED BY <1>1, <1>2, <1>3, <2>1, <3>1 DEF Balances
    <2>2. CASE a = v
      <3>1. Lead("api", v)' = Lead("api", v)
        BY <1>1, <2>2, Apart, LeadSame
      <3>2. Balances(v, v)
        BY <2>2
      <3> QED BY <1>1, <1>2, <1>3, <3>1, <3>2 DEF Balances
    <2>3. CASE a # "api" /\ a # v
      <3>1. Lead("api", v)' = Lead("api", v) /\ Lead(v, v)' = Lead(v, v)
        BY <2>3, Apart, LeadSame
      <3>2. a \in Workers
        BY <2>3, Apart
      <3>3. Lead(a, v) = 0
        BY <2>3, <3>2, LeadBounds DEF Typed, JobInv
      <3>4. Lead(a, v)' = 0
        BY <2>3, <3>2, NextLead DEF Typed, JobInv
      <3>5. tokens'[v] - Total(v)' = tokens[v] - Total(v)
        BY <1>1, <1>3, <3>3, <3>4 DEF Balances
      <3> QED BY <1>1, <1>2, <1>3, <3>1, <3>5
    <2> QED BY <2>1, <2>2, <2>3
  <1> QED BY <1>4 DEF Explained, DefaultTokens

LEMMA BegunLead ==
    ASSUME Typed', NEW a \in Actors, NEW w, Begun(a, w), NEW v
    PROVE  Lead(a, v)' = 0
  <1> DEFINE j == job'[a]
  <1>1. InScript(j) /\ (j.at = 1 \/ j.op = "withdraw") /\ j.op \in Ops
    BY BusyFields DEF Begun, InScript
  <1>2. CASE j.op = "withdraw"
    BY <1>2, NextLead
  <1>3. CASE j.at = 1 /\ j.op # "withdraw"
    <2>1. /\ j.op \in Mints => "tokens" \in Ahead(j)
          /\ j.op \in {"burn", "cert"} => "use" \in Ahead(j)
          /\ "history" \in Ahead(j)
      BY <1>1, <1>3, AheadFirst
    <2>2. j.op \in Mints \/ j.op \in {"burn", "cert"}
      BY <1>1, <1>3 DEF Ops, Burns
    <2> QED BY <2>1, <2>2, NextLead
  <1> QED BY <1>1, <1>2, <1>3

LEMMA AskedExplained ==
    ASSUME CreditsInv, Typed', NEW w \in Workers, Asked(w), NEW v \in Workers, HasRow(v)',
           v \notin broken', Explained(v)
    PROVE  Explained(v)'
  <1>1. Typed /\ UNCHANGED <<history, broken>>
    BY CreditsInvTyped DEF Asked, rows, ghosts
  <1>2. ASSUME NEW b \in Actors PROVE Lead(b, v)' = Lead(b, v)
    <2>1. CASE job'[b] = job[b]
      BY <2>1, LeadSame
    <2>2. CASE job'[b] # job[b]
      <3>1. PICK a \in Actors : Begun(a, w)
        BY <2>2 DEF Asked
      <3>2. b = a /\ job[a] = Idle
        BY <2>2, <3>1 DEF Begun, Others
      <3> QED BY <1>1, <3>1, <3>2, BegunLead, LeadBounds
    <2> QED BY <2>1, <2>2
  <1>3. Lead("api", v)' = Lead("api", v) /\ Lead(v, v)' = Lead(v, v) /\ Total(v)' = Total(v)
    BY <1>1, <1>2, Apart, TotalSame
  <1>4. CASE HasRow(v) /\ tokens'[v] = tokens[v]
    BY <1>1, <1>3, <1>4 DEF Explained
  <1>5. CASE member[v] = "none" /\ tokens'[v] = DefaultTokens
    <2>1. ASSUME NEW b \in Actors PROVE Lead(b, v) = 0
      <3>1. job[b] # Idle => job[b].worker # v
        BY <1>1, <1>5 DEF Typed, JobInv
      <3> QED BY <1>1, <3>1, LeadBounds
    <2>2. Lead("api", v)' = 0 /\ Lead(v, v)' = 0
      BY <1>3, <2>1, Apart
    <2>3. Total(v) = 0
      <3>1. history[v] = <<>>
        BY <1>5 DEF CreditsInv, TableInv, NoRowsWithoutWorker, HasRow
      <3>2. Len(<<>>) = 0
        OBVIOUS
      <3> QED BY <3>1, <3>2, FirstSumEmpty DEF Total
    <2> QED BY <1>3, <1>5, <2>2, <2>3 DEF Explained, DefaultTokens
  <1>6. \/ HasRow(v) /\ tokens'[v] = tokens[v]
        \/ member[v] = "none" /\ tokens'[v] = DefaultTokens
    BY DEF Asked, HasRow
  <1> QED BY <1>4, <1>5, <1>6

LEMMA StillExplained ==
    ASSUME UNCHANGED <<member, tokens, history>>, NEW v \in Workers, Explained(v),
           v \notin broken' => v \notin broken /\ \A b \in Actors : Lead(b, v)' = Lead(b, v)
    PROVE  Explained(v)'
  BY Apart, TotalSame DEF Explained, HasRow

LEMMA StepLedger == CreditsInv /\ Ledger /\ [Next]_vars => Ledger'
  <1> SUFFICES ASSUME CreditsInv, Ledger, [Next]_vars, NEW v \in Workers, HasRow(v)',
                      v \notin broken'
               PROVE  Explained(v)'
    BY DEF Ledger, Explained
  <1>1. Typed /\ Typed' /\ Acts /\ Explained(v)
    BY CreditsInvTyped, NextIs, StepTyped DEF Ledger
  <1>2. ASSUME NEW a \in Actors, Continue(a) PROVE Explained(v)'
    <2>1. Balances(a, v) /\ HasRow(v) /\ v \notin broken
      BY <1>1, <1>2, ContinueBalances
    <2>2. \A b \in Actors \ {a} : job'[b] = job[b]
      BY <1>1, <1>2, ContinueMoves DEF Moves, Others
    <2> QED BY <1>1, <2>1, <2>2, ExplainedStep
  <1>3. ASSUME NEW w \in Workers, Asked(w) PROVE Explained(v)'
    BY <1>1, <1>3, AskedExplained
  <1>4. ASSUME UNCHANGED <<member, tokens, history, job, broken>> PROVE Explained(v)'
    BY <1>1, <1>4, LeadSame, StillExplained
  <1>5. ASSUME NEW i, Mined(i) PROVE Explained(v)'
    BY <1>4, <1>5 DEF Mined, person, rows
  <1>6. ASSUME NEW w \in Workers, Apply(w) PROVE Explained(v)'
    BY <1>4, <1>6 DEF Apply, ghosts, rows
  <1>7. CASE NextDay
    BY <1>4, <1>7 DEF NextDay, person, ghosts, rows
  <1>8. CASE UNCHANGED vars
    BY <1>4, <1>8 DEF vars, person, ghosts, rows
  \* A handler that dies leaves its worker unexplained; those of other workers
  \* are nothing to v.
  <1>9. CASE Crashed
    <2>1. /\ UNCHANGED <<member, tokens, history>> /\ broken \subseteq broken'
          /\ \A b \in Actors : \/ job'[b] = job[b]
                               \/ job'[b] = Idle /\ job[b].worker \in broken'
      BY <1>9 DEF Crashed, rows
    <2>2. ASSUME NEW b \in Actors PROVE Lead(b, v)' = Lead(b, v)
      <3>1. CASE job'[b] = job[b]
        BY <3>1, LeadSame
      <3>2. CASE job'[b] = Idle /\ job[b].worker # v
        BY <1>1, <3>2, LeadBounds, NextLead
      <3> QED BY <2>1, <3>1, <3>2
    <2> QED BY <1>1, <2>1, <2>2, StillExplained
  <1> QED BY <1>1, <1>2, <1>3, <1>5, <1>6, <1>7, <1>8, <1>9 DEF Acts

\* However the two transactions of a handler, in either order, the steps of
\* the signup thread, failed calls and crashes interleave: the tokens column of
\* a worker nobody is working for is the default plus everything in the
\* credit_history, unless a handler died, was refused the use of tokens or
\* gave one back (add_tokens, use_token, create_credit_history).
THEOREM HistoryExplains == Spec => []HistoryExplainsTokens
  <1>1. Init => Ledger
    BY DEF Init, Ledger, Explained, HasRow
  <1>2. Spec => []Ledger
    BY <1>1, StepLedger, CreditsInvHolds, PTL DEF Spec
  <1>3. CreditsInv /\ Ledger => HistoryExplainsTokens
    <2> SUFFICES ASSUME CreditsInv, Ledger, NEW w \in Workers, HasRow(w), w \notin broken,
                        ~Waiting(w)
                 PROVE  tokens[w] = DefaultTokens + Total(w)
      BY DEF HistoryExplainsTokens
    <2>1. Typed
      BY CreditsInvTyped
    <2>2. tokens[w] = 3 + Total(w) + Lead("api", w) + Lead(w, w)
      BY DEF Ledger, Explained, DefaultTokens
    <2>3. \A b \in Actors : Lead(b, w) = 0
      BY <2>1, LeadBounds DEF Waiting
    <2>4. Lead("api", w) = 0 /\ Lead(w, w) = 0 /\ Total(w) \in Int
      BY <2>1, <2>3, Apart, TotalInt
    <2> QED BY <2>2, <2>4 DEF DefaultTokens
  <1> QED BY <1>2, <1>3, CreditsInvHolds, PTL

-----------------------------------------------------------------------------
(* Overdrafts: between the two transactions of a negative mint the column  *)
(* is below zero by credits the history does not name yet.                 *)

IsTaking(j) == j.op = "mint" /\ j.amount < 0

\* Credits an administrator's request has taken and not recorded yet.
Taking(w) ==
    LET j == job["api"] IN
    IF /\ j # Idle /\ IsTaking(j) /\ j.worker = w
       /\ "tokens" \notin Ahead(j) /\ "history" \in Ahead(j)
    THEN j.amount ELSE 0

NotOverdrawn(w) ==
    HasRow(w) /\ w \notin broken
        => Taken(w) <= 0 /\ tokens[w] >= Taken(w) + Taking(w)

Overdrafts == \A w \in Workers : NotOverdrawn(w)

LEMMA TakingIs ==
    ASSUME Typed, NEW w
    PROVE  /\ Taking(w) \in Int /\ Taking(w) <= 0
           /\ job["api"] = Idle => Taking(w) = 0
           /\ ~IsTaking(job["api"]) => Taking(w) = 0
           /\ job["api"].worker # w => Taking(w) = 0
           /\ "tokens" \in Ahead(job["api"]) => Taking(w) = 0
  <1>1. job["api"] # Idle => job["api"].amount \in Int
    BY Apart, BusyFields DEF Typed, JobInv, InScript
  <1> QED BY <1>1 DEF Taking, IsTaking

LEMMA NextTaking ==
    ASSUME Typed', NEW w
    PROVE  LET j == job'["api"] IN
           /\ Taking(w)' \in Int /\ Taking(w)' <= 0
           /\ j = Idle => Taking(w)' = 0
           /\ ~IsTaking(j) => Taking(w)' = 0
           /\ j.worker # w => Taking(w)' = 0
           /\ "tokens" \in Ahead(j) => Taking(w)' = 0
           /\ "history" \notin Ahead(j) => Taking(w)' = 0
           /\ (j # Idle /\ IsTaking(j) /\ j.worker = w
               /\ "tokens" \notin Ahead(j) /\ "history" \in Ahead(j))
                 => Taking(w)' = j.amount
  <1>0. Ahead(job["api"])' = Ahead(job'["api"])
    BY DEF Ahead
  <1>1. job'["api"] # Idle => job'["api"].amount \in Int
    BY Apart, BusyFields DEF Typed, JobInv, InScript
  <1> QED BY <1>0, <1>1 DEF Taking, IsTaking

\* Where a negative mint can be.
LEMMA NegativeAt ==
    ASSUME Typed, NEW a \in Actors, NEW s, Step(a, s), IsTaking(job[a])
    PROVE  /\ a = "api"
           /\ \/ s = "send" /\ Enabled /\ "tokens" \in Ahead(job[a])
              \/ s = "tokens" /\ ~Enabled /\ "history" \in Ahead(job[a])
              \/ s = "history" /\ ~Enabled /\ "tokens" \notin Ahead(job[a])
  <1> DEFINE j == job[a]
             S == Script(j.op)
             at == j.at
  <1>1. /\ InScript(j) /\ j \in Busy /\ s = S[at] /\ j.op = "mint"
        /\ a \in Workers => j.op = "signup"
    BY StepIs DEF Step, Typed, JobInv, IsTaking
  <1>2. a = "api"
    BY <1>1, Apart
  <1>3. CASE s = "send"
    <2>1. at = 1
      BY <1>1, <1>3, AheadNow
    <2>2. "tokens" \in Ahead(j)
      BY <1>1, <2>1, AheadFirst DEF Mints
    <2>3. Enabled
      <3> SUFFICES ASSUME ~Enabled PROVE FALSE
        OBVIOUS
      <3>1. S = <<"tokens", "history">>
        BY <1>1 DEF Script, Tables
      <3> QED BY <1>1, <1>3, <2>1, <3>1
    <2> QED BY <1>2, <1>3, <2>2, <2>3
  <1>4. CASE s # "send"
    <2>1. ~Enabled
      BY <1>1, <1>4, PastSend, BusyFields DEF IsTaking
    <2>2. S = <<"tokens", "history">>
      BY <1>1, <2>1 DEF Script, Tables
    <2>3. at \in 1 .. Len(S) /\ Ahead(j) = {S[k] : k \in at .. Len(S)}
      BY <1>1, AheadIs DEF InScript
    <2>4. Len(S) = 2 /\ S[1] = "tokens" /\ S[2] = "history"
      BY <2>2
    <2> HIDE DEF S, at
    <2>5. at \in {1, 2}
      BY <2>3, <2>4
    <2>6. CASE at = 1
      <3>1. S[2] \in Ahead(j)
        BY <2>3, <2>4, <2>6
      <3> QED BY <1>1, <1>2, <2>1, <2>4, <2>6, <3>1
    <2>7. CASE at = 2
      <3>1. Ahead(j) = {S[2]}
        BY <2>3, <2>4, <2>7
      <3> QED BY <1>1, <1>2, <2>1, <2>4, <2>7, <3>1
    <2> QED BY <2>5, <2>6, <2>7
  <1> QED BY <1>3, <1>4

\* Only the two transactions of a negative mint change what is being taken.
LEMMA TakingSame ==
    ASSUME Typed, Typed', NEW a \in Actors, Continue(a), NEW v,
           ~(IsTaking(job[a]) /\ (Step(a, "tokens") \/ Step(a, "history")))
    PROVE  Taking(v)' = Taking(v)
  <1>1. Moves(a)
    BY ContinueMoves
  <1>2. CASE a # "api"
    <2>1. job'["api"] = job["api"]
      BY <1>1, <1>2, Apart DEF Moves, Others
    <2>2. Ahead(job["api"])' = Ahead(job["api"])
      BY <2>1 DEF Ahead
    <2> QED BY <2>1, <2>2 DEF Taking
  <1>3. CASE a = "api" /\ ~IsTaking(job[a])
    <2>1. Taking(v) = 0
      BY <1>3, TakingIs
    <2>2. job'[a] = Idle \/ ~IsTaking(job'[a])
      BY <1>1, <1>3 DEF Moves, Onward, IsTaking
    <2> QED BY <1>3, <2>1, <2>2, NextTaking
  <1>4. CASE a = "api" /\ IsTaking(job[a])
    <2>1. \E s \in Steps : Step(a, s)
      BY DEF Continue, Send, Receipt, Timeout, AddTokens, UseTokens, RecordHistory,
             InsertCheckin, CheckMonth, InsertBonus, DrawCertificate, DeleteWorker, Steps
    <2>2. Step(a, "send") /\ "tokens" \in Ahead(job[a])
      BY <1>4, <2>1, NegativeAt
    <2>3. Send(a)
      BY <2>2 DEF Continue, Step, Receipt, Timeout, AddTokens, UseTokens, RecordHistory,
             InsertCheckin, CheckMonth, InsertBonus, DrawCertificate, DeleteWorker
    <2>4. ~(job[a].amount >= 0)
      BY <1>4, <2>2, StepIs, BusyFields DEF IsTaking
    <2>5. OnFailure(a)
      BY <2>3, <2>4 DEF Send
    <2>6. Finish(a)
      BY <1>4, <2>5 DEF OnFailure, IsTaking
    <2>7. job'[a] = Idle
      BY <2>6, FinishIs
    <2> QED BY <1>4, <2>2, <2>7, TakingIs, NextTaking
  <1> QED BY <1>2, <1>3, <1>4

LEMMA TakenInt ==
    ASSUME Typed, NEW v \in Workers
    PROVE  Taken(v) \in Int
  <1> DEFINE h == history[v]
             n == Len(h)
             f == [i \in DOMAIN h |-> Negative(h[i])]
  <1>1. h \in Seq(HistoryRow)
    BY DEF Typed, TypeOK
  <1>2. DOMAIN h = 1 .. n /\ n \in Nat /\ \A i \in 1 .. n : h[i] \in HistoryRow
    <2> HIDE DEF h
    <2> QED BY <1>1, LenProperties, ElementOfSeq
  <1> HIDE DEF n
  <1>3. \A i \in 1 .. n : f[i] \in Int
    <2>1. \A r \in HistoryRow : Negative(r) \in Int
      BY DEF HistoryRow, Negative
    <2> QED BY <1>2, <2>1
  <1> HIDE DEF f
  <1>4. FirstSum(f, n) \in Int
    BY <1>2, <1>3, FirstSumType
  <1> QED BY <1>4 DEF Taken, f, n, h

LEMMA TakenSame ==
    ASSUME NEW v, history'[v] = history[v]
    PROVE  Taken(v)' = Taken(v)
  BY DEF Taken

LEMMA TakenEmpty ==
    ASSUME NEW v, history[v] = <<>>
    PROVE  Taken(v) = 0
  <1>1. Len(<<>>) = 0
    OBVIOUS
  <1> QED BY <1>1, FirstSumEmpty DEF Taken

LEMMA TakenAppended ==
    ASSUME Typed, NEW v \in Workers, NEW row \in HistoryRow, history'[v] = Append(history[v], row)
    PROVE  Taken(v)' = Taken(v) + Negative(row)
  <1> DEFINE h == history[v]
             g == history'[v]
             n == Len(h)
             e == [i \in DOMAIN h |-> Negative(h[i])]
             f == [i \in DOMAIN g |-> Negative(g[i])]
  <1>1. h \in Seq(HistoryRow)
    BY DEF Typed, TypeOK
  <1>2. /\ Len(g) = n + 1 /\ n \in Nat
        /\ DOMAIN h = 1 .. n /\ DOMAIN g = 1 .. n + 1
        /\ \A i \in DOMAIN h : g[i] = h[i]
        /\ g[n + 1] = row
    <2> HIDE DEF h, g
    <2>1. /\ Len(g) = Len(h) + 1 /\ Len(h) \in Nat
          /\ DOMAIN h = 1 .. Len(h) /\ DOMAIN g = 1 .. Len(h) + 1
          /\ \A i \in DOMAIN h : g[i] = h[i]
          /\ g[Len(g)] = row
      BY <1>1, Appended DEF h, g
    <2> QED BY <2>1
  <1> HIDE DEF n
  <1>3. \A i \in 1 .. n : f[i] = e[i]
    BY <1>2
  <1>4. f[n + 1] = Negative(row)
    BY <1>2
  <1> HIDE DEF e, f
  <1>5. FirstSum(f, n) = FirstSum(e, n)
    BY <1>2, <1>3, FirstSumEqual
  <1>6. FirstSum(f, n + 1) = FirstSum(f, n) + f[n + 1]
    BY <1>2, FirstSumNext
  <1>7. Taken(v) = FirstSum(e, n) /\ Taken(v)' = FirstSum(f, n + 1)
    BY <1>2 DEF Taken, e, f, h, g, n
  <1> QED BY <1>4, <1>5, <1>6, <1>7

\* The steps that neither write to the history nor take from the column.
LEMMA OverdraftLevel ==
    ASSUME Typed, Typed', NEW v \in Workers, NotOverdrawn(v), HasRow(v), v \notin broken,
           history'[v] = history[v], Taking(v)' = Taking(v), tokens'[v] >= tokens[v]
    PROVE  NotOverdrawn(v)'
  <1>1. Taken(v)' = Taken(v) /\ Taken(v) \in Int /\ Taking(v) \in Int
    BY TakenSame, TakenInt, TakingIs
  <1>2. tokens[v] \in Int /\ tokens'[v] \in Int
    BY DEF Typed, TypeOK
  <1> QED BY <1>1, <1>2 DEF NotOverdrawn

LEMMA AddTokensOverdraft ==
    ASSUME Typed, Typed', NEW a \in Actors, AddTokens(a), NEW v \in Workers,
           NotOverdrawn(v), HasRow(v)', v \notin broken'
    PROVE  NotOverdrawn(v)'
  <1> DEFINE j == job[a]
             w == j.worker
             n == j.amount
  <1>1. /\ Step(a, "tokens") /\ Advance(a) /\ UNCHANGED <<history, member, broken>>
        /\ tokens' = IF HasRow(w) THEN [tokens EXCEPT ![w] = @ + n] ELSE tokens
    BY DEF AddTokens, person, ghosts, rows
  <1>2. HasRow(v) /\ v \notin broken
    BY <1>1 DEF HasRow
  <1>3. tokens'[v] = IF v = w THEN tokens[v] + n ELSE tokens[v]
    <2> HIDE DEF w, n
    <2> QED BY <1>1, <1>2 DEF Typed, TypeOK
  <1>4. n \in Int /\ tokens[v] \in Int /\ w \in Workers /\ j # Idle /\ j.op \in Mints
        /\ "tokens" \in Ahead(j)
    BY <1>1, StepIs, BusyFields, AheadKind DEF Typed, TypeOK
  <1>5. CASE ~IsTaking(j)
    <2>1. Taking(v)' = Taking(v)
      BY <1>5, TakingSame DEF Continue
    <2>2. n \in Nat
      BY <1>1, <1>4, <1>5, PastSend, Disjoint DEF IsTaking, Burns
    <2>3. tokens'[v] >= tokens[v]
      BY <1>3, <1>4, <2>2
    <2> QED BY <1>1, <1>2, <2>1, <2>3, OverdraftLevel
  <1>6. CASE IsTaking(j)
    <2>1. a = "api" /\ "history" \in Ahead(j)
      BY <1>1, <1>6, NegativeAt
    <2>2. Taking(v) = 0
      BY <1>4, <2>1, TakingIs
    <2>3. Onward(j, job'[a], {"tokens"}, j.tx)
      BY <1>1, <2>1, AdvanceIs
    <2>4. /\ job'[a] # Idle /\ IsTaking(job'[a]) /\ job'[a].worker = w /\ job'[a].amount = n
          /\ "tokens" \notin Ahead(job'[a]) /\ "history" \in Ahead(job'[a])
      BY <1>6, <2>1, <2>3, BusyFields DEF Onward, IsTaking, InScript
    <2>5. Taking(v)' = IF v = w THEN n ELSE 0
      BY <2>1, <2>4, NextTaking
    <2>6. Taken(v)' = Taken(v) /\ Taken(v) \in Int
      BY <1>1, TakenSame, TakenInt
    <2> HIDE DEF n, w
    <2> QED BY <1>2, <1>3, <1>4, <2>2, <2>5, <2>6 DEF NotOverdrawn
  <1> QED BY <1>5, <1>6

LEMMA RecordHistoryOverdraft ==
    ASSUME Typed, Typed', NEW a \in Actors, RecordHistory(a), NEW v \in Workers,
           NotOverdrawn(v), HasRow(v)', v \notin broken'
    PROVE  NotOverdrawn(v)'
  <1> DEFINE j == job[a]
             w == j.worker
             n == j.amount
  <1>1. /\ Step(a, "history") /\ RowOf(j) \in HistoryRow
        /\ UNCHANGED <<tokens, member, broken>>
        /\ w \in Workers /\ n \in Int /\ j # Idle
    BY RecordHistoryIs, BusyFields DEF person, ghosts
  <1>2. HasRow(v) /\ v \notin broken /\ tokens[v] \in Int /\ tokens'[v] = tokens[v]
    BY <1>1 DEF HasRow, Typed, TypeOK
  <1>3. Taken(v) \in Int /\ Taking(v) \in Int /\ Taking(v)' \in Int
    BY TakenInt, TakingIs, NextTaking
  <1>4. Negative(RowOf(j)) = IF IsTaking(j) THEN n ELSE 0
    BY Disjoint DEF Negative, RowOf, IsTaking, Mints
  <1>5. \/ Finish(a) /\ history'[v] = history[v] /\ v # w
        \/ Advance(a) /\ history'[v] = history[v] /\ v # w
        \/ Advance(a) /\ history'[v] = Append(history[v], RowOf(j)) /\ v = w
    BY <1>2, RecordHistoryIs
  <1>6. CASE ~IsTaking(j)
    <2>1. Taking(v)' = Taking(v)
      BY <1>6, TakingSame DEF Continue
    <2>2. Taken(v)' = Taken(v)
      BY <1>1, <1>3, <1>4, <1>5, <1>6, TakenSame, TakenAppended
    <2> QED BY <1>2, <1>3, <2>1, <2>2 DEF NotOverdrawn
  <1>7. CASE IsTaking(j)
    <2>1. a = "api" /\ "tokens" \notin Ahead(j) /\ "history" \in Ahead(j)
      BY <1>1, <1>7, NegativeAt, StepIs
    <2>2. Taking(v)' = 0
      <3>1. job'[a] = Idle \/ Onward(j, job'[a], {"history"}, j.tx)
        BY <1>1, <1>5, AdvanceIs, FinishIs
      <3>2. job'[a] = Idle \/ "history" \notin Ahead(job'[a])
        BY <3>1 DEF Onward
      <3> QED BY <2>1, <3>2, NextTaking
    <2>3. Taking(v) = IF v = w THEN n ELSE 0
      BY <1>1, <1>7, <2>1 DEF Taking
    <2>4. Taken(v)' = IF v = w THEN Taken(v) + n ELSE Taken(v)
      BY <1>1, <1>4, <1>5, <1>7, TakenSame, TakenAppended
    <2>5. n < 0
      BY <1>7 DEF IsTaking
    <2> HIDE DEF n, w
    <2> QED BY <1>1, <1>2, <1>3, <2>2, <2>3, <2>4, <2>5 DEF NotOverdrawn
  <1> QED BY <1>6, <1>7

\* A use of tokens is refused or leaves a column that is not below zero.
LEMMA UseTokensOverdraft ==
    ASSUME Typed, Typed', NEW a \in Actors, UseTokens(a), NEW v \in Workers,
           NotOverdrawn(v), HasRow(v)', v \notin broken'
    PROVE  NotOverdrawn(v)'
  <1> DEFINE w == job[a].worker
             n == job[a].amount
  <1>1. Step(a, "use") /\ UNCHANGED <<history, member>>
        /\ \/ tokens[w] >= n /\ tokens' = [tokens EXCEPT ![w] = @ - n] /\ UNCHANGED broken
           \/ UNCHANGED tokens /\ broken \subseteq broken'
    BY DEF UseTokens, person, rows
  <1>2. HasRow(v) /\ v \notin broken /\ w \in Workers /\ n \in Int
    BY <1>1, StepIs, BusyFields DEF HasRow
  <1>3. Taking(v)' = Taking(v)
    <2>1. ~IsTaking(job[a])
      BY <1>1, StepIs, AheadKind DEF IsTaking
    <2> QED BY <2>1, TakingSame DEF Continue
  <1>4. /\ Taken(v)' = Taken(v) /\ Taken(v) \in Int
        /\ Taking(v) \in Int /\ Taking(v) <= 0
        /\ tokens[v] \in Int
    BY <1>1, TakenSame, TakenInt, TakingIs DEF Typed, TypeOK
  <1>5. tokens'[v] = tokens[v] \/ (tokens[v] >= n /\ tokens'[v] = tokens[v] - n)
    <2> HIDE DEF w, n
    <2> QED BY <1>1, <1>2 DEF Typed, TypeOK
  <1> HIDE DEF w, n
  <1> QED BY <1>2, <1>3, <1>4, <1>5 DEF NotOverdrawn

LEMMA ContinueOverdraft ==
    ASSUME Typed, Typed', NEW a \in Actors, Continue(a), NEW v \in Workers,
           NotOverdrawn(v), HasRow(v)', v \notin broken'
    PROVE  NotOverdrawn(v)'
  <1>1. ASSUME HasRow(v), v \notin broken, history'[v] = history[v], tokens'[v] = tokens[v],
               ~AddTokens(a), ~RecordHistory(a)
        PROVE  NotOverdrawn(v)'
    <2>1. ~(Step(a, "tokens") \/ Step(a, "history"))
      BY <1>1 DEF Continue, Step, Send, Receipt, Timeout, UseTokens, InsertCheckin, CheckMonth,
             InsertBonus, DrawCertificate, DeleteWorker
    <2>2. Taking(v)' = Taking(v)
      BY <2>1, TakingSame
    <2>3. tokens[v] \in Int
      BY DEF Typed, TypeOK
    <2> QED BY <1>1, <2>2, <2>3, OverdraftLevel
  <1>2. ASSUME NEW w, UNCHANGED <<history, member>>, broken' = broken \cup {w},
               tokens' = [tokens EXCEPT ![w] = @ + 1], ~AddTokens(a), ~RecordHistory(a)
        PROVE  NotOverdrawn(v)'
    <2>1. HasRow(v) /\ v \notin broken /\ tokens'[v] = tokens[v]
      BY <1>2 DEF HasRow, Typed, TypeOK
    <2> QED BY <1>1, <1>2, <2>1
  <1>3. ASSUME UNCHANGED <<history, member, tokens, broken>>, ~AddTokens(a), ~RecordHistory(a)
        PROVE  NotOverdrawn(v)'
    BY <1>1, <1>3 DEF HasRow
  <1>4. CASE AddTokens(a)
    BY <1>4, AddTokensOverdraft
  <1>5. CASE RecordHistory(a)
    BY <1>5, RecordHistoryOverdraft
  <1>6. CASE UseTokens(a)
    BY <1>6, UseTokensOverdraft
  <1>7. CASE DrawCertificate(a) /\ ~AddTokens(a) /\ ~RecordHistory(a)
    BY <1>2, <1>3, <1>7 DEF DrawCertificate, person, rows
  <1>8. CASE DeleteWorker(a) /\ ~AddTokens(a) /\ ~RecordHistory(a)
    <2>1. HasRow(v) /\ v \notin broken /\ tokens'[v] = tokens[v] /\ history'[v] = history[v]
      BY <1>8, DeleteWorkerIs DEF HasRow
    <2> QED BY <1>1, <1>8, <2>1
  <1>9. CASE /\ Send(a) \/ Receipt(a) \/ Timeout(a) \/ InsertCheckin(a) \/ CheckMonth(a) \/ InsertBonus(a)
             /\ ~AddTokens(a) /\ ~RecordHistory(a)
    BY <1>3, <1>9 DEF Send, Receipt, Timeout, InsertCheckin, CheckMonth, InsertBonus,
           person, rows, ghosts
  <1> QED BY <1>4, <1>5, <1>6, <1>7, <1>8, <1>9 DEF Continue

LEMMA BegunTaking ==
    ASSUME Typed', NEW a \in Actors, NEW w, Begun(a, w), NEW v
    PROVE  a = "api" => Taking(v)' = 0
  <1> DEFINE j == job'[a]
  <1>1. InScript(j) /\ (j.at = 1 \/ j.op = "withdraw")
    BY DEF Begun
  <1>2. CASE ~IsTaking(j)
    BY <1>2, NextTaking
  <1>3. CASE IsTaking(j)
    <2>1. "tokens" \in Ahead(j)
      BY <1>1, <1>3, AheadFirst DEF IsTaking, Mints
    <2> QED BY <2>1, NextTaking
  <1> QED BY <1>2, <1>3

LEMMA AskedOverdraft ==
    ASSUME CreditsInv, Typed', NEW w \in Workers, Asked(w), NEW v \in Workers,
           NotOverdrawn(v), HasRow(v)', v \notin broken'
    PROVE  NotOverdrawn(v)'
  <1>1. Typed /\ UNCHANGED <<history, broken>>
    BY CreditsInvTyped DEF Asked, rows, ghosts
  <1>2. CASE HasRow(v) /\ tokens'[v] = tokens[v]
    <2>1. Taking(v)' = Taking(v)
      <3>1. CASE job'["api"] = job["api"]
        <4>1. Ahead(job["api"])' = Ahead(job["api"])
          BY <3>1 DEF Ahead
        <4> QED BY <3>1, <4>1 DEF Taking
      <3>2. CASE job'["api"] # job["api"]
        <4>1. PICK a \in Actors : Begun(a, w)
          BY <3>2 DEF Asked
        <4>2. a = "api" /\ job[a] = Idle
          BY <3>2, <4>1, Apart DEF Begun, Others
        <4> QED BY <1>1, <4>1, <4>2, BegunTaking, TakingIs
      <3> QED BY <3>1, <3>2
    <2>2. tokens[v] \in Int
      BY <1>1 DEF Typed, TypeOK
    <2> QED BY <1>1, <1>2, <2>1, <2>2, OverdraftLevel
  <1>3. CASE member[v] = "none" /\ tokens'[v] = DefaultTokens
    <2>1. history[v] = <<>>
      BY <1>3 DEF CreditsInv, TableInv, NoRowsWithoutWorker, HasRow
    <2>2. Taken(v)' = 0
      BY <1>1, <2>1, TakenSame, TakenEmpty
    <2>3. Taking(v)' \in Int /\ Taking(v)' <= 0
      BY NextTaking
    <2> QED BY <1>3, <2>2, <2>3 DEF NotOverdrawn, DefaultTokens
  <1>4. \/ HasRow(v) /\ tokens'[v] = tokens[v]
        \/ member[v] = "none" /\ tokens'[v] = DefaultTokens
    BY DEF Asked, HasRow
  <1> QED BY <1>2, <1>3, <1>4

LEMMA StepOverdrafts == CreditsInv /\ Overdrafts /\ [Next]_vars => Overdrafts'
  <1> SUFFICES ASSUME CreditsInv, Overdrafts, [Next]_vars, NEW v \in Workers, HasRow(v)',
                      v \notin broken'
               PROVE  NotOverdrawn(v)'
    BY DEF Overdrafts, NotOverdrawn
  <1>1. Typed /\ Typed' /\ Acts /\ NotOverdrawn(v)
    BY CreditsInvTyped, NextIs, StepTyped DEF Overdrafts
  <1>2. ASSUME NEW a \in Actors, Continue(a) PROVE NotOverdrawn(v)'
    BY <1>1, <1>2, ContinueOverdraft
  <1>3. ASSUME NEW w \in Workers, Asked(w) PROVE NotOverdrawn(v)'
    BY <1>1, <1>3, AskedOverdraft
  <1>4. ASSUME UNCHANGED <<member, tokens, history>>, v \notin broken, Taking(v)' = Taking(v)
        PROVE  NotOverdrawn(v)'
    <2>1. HasRow(v) /\ tokens[v] \in Int
      BY <1>1, <1>4 DEF HasRow, Typed, TypeOK
    <2> QED BY <1>1, <1>4, <2>1, OverdraftLevel
  <1>5. UNCHANGED job => Taking(v)' = Taking(v)
    BY DEF Taking, Ahead
  <1>6. ASSUME NEW i, Mined(i) PROVE NotOverdrawn(v)'
    BY <1>4, <1>5, <1>6 DEF Mined, person, rows
  <1>7. ASSUME NEW w \in Workers, Apply(w) PROVE NotOverdrawn(v)'
    BY <1>4, <1>5, <1>7 DEF Apply, ghosts, rows
  <1>8. CASE NextDay
    BY <1>4, <1>5, <1>8 DEF NextDay, person, ghosts, rows
  <1>9. CASE UNCHANGED vars
    BY <1>4, <1>5, <1>9 DEF vars, person, ghosts, rows
  \* An administrator's request that dies leaves its worker unexplained.
  <1>10. CASE Crashed
    <2>1. /\ UNCHANGED <<member, tokens, history>> /\ v \notin broken
          /\ \/ job'["api"] = job["api"]
             \/ job'["api"] = Idle /\ job["api"].worker # v
      BY <1>10, Apart DEF Crashed, rows
    <2>2. Taking(v)' = Taking(v)
      <3>1. CASE job'["api"] = job["api"]
        <4>1. Ahead(job["api"])' = Ahead(job["api"])
          BY <3>1 DEF Ahead
        <4> QED BY <3>1, <4>1 DEF Taking
      <3>2. CASE job'["api"] = Idle /\ job["api"].worker # v
        BY <1>1, <3>2, TakingIs, NextTaking
      <3> QED BY <2>1, <3>1, <3>2
    <2> QED BY <1>4, <2>1, <2>2
  <1> QED BY <1>1, <1>2, <1>3, <1>6, <1>7, <1>8, <1>9, <1>10 DEF Acts

\* Every variable keeps its type, and however requests for any integer, the
\* two transactions of each and crashes interleave: the column of a worker
\* nobody is working for is below zero only by what administrators took with
\* negative mints, which the history names (add_tokens, use_token,
\* mint_credits, burn_my_credits).
THEOREM ColumnKept == Spec => []ColumnInv
  <1>1. Init => Overdrafts
    BY DEF Init, Overdrafts, NotOverdrawn, HasRow
  <1>2. Spec => []Overdrafts
    BY <1>1, StepOverdrafts, CreditsInvHolds, PTL DEF Spec
  <1>3. CreditsInv /\ Overdrafts => ColumnInv
    <2> SUFFICES ASSUME CreditsInv, Overdrafts
                 PROVE  TypeOK /\ NoOverdraft
      BY DEF ColumnInv
    <2>1. Typed
      BY CreditsInvTyped
    <2>2. ASSUME NEW w \in Workers, HasRow(w), w \notin broken, ~Waiting(w)
          PROVE  tokens[w] >= Taken(w)
      <3>1. Taking(w) = 0
        BY <2>1, <2>2, Apart, TakingIs DEF Waiting
      <3>2. Taken(w) \in Int
        BY <2>1, TakenInt
      <3> QED BY <2>2, <3>1, <3>2 DEF Overdrafts, NotOverdrawn
    <2> QED BY <2>1, <2>2 DEF NoOverdraft, Typed
  <1> QED BY <1>2, <1>3, CreditsInvHolds, PTL

-----------------------------------------------------------------------------
(* Check-ins and their bonus: what the API worked out before the call to   *)
(* the chain still holds when the row is written on the same day.          *)

\* The reward was worked out for the streak as it is.
RewardCurrent ==
    LET j == job["api"] IN
    j # Idle /\ j.op = "checkin" /\ "checkin" \in Ahead(j) /\ j.ref = today
        => j.amount = Reward(StreakDays(Dates(j.worker), today))

\* The month of a bonus that is being paid is over and was attended.
MonthAttended ==
    LET j == job["api"] IN
    j # Idle /\ j.op = "monthly"
        => \A d \in Days : MonthOf(d) = j.ref => d < today /\ d \in Dates(j.worker)

EarnedInv == RewardMatchesStreak /\ RewardCurrent /\ MonthlyBonusEarned /\ MonthAttended

LEMMA InitEarned == Init => EarnedInv
  <1> SUFFICES ASSUME Init PROVE EarnedInv
    OBVIOUS
  <1>1. job["api"] = Idle /\ \A w \in Workers : checkins[w] = {} /\ bonuses[w] = {}
    BY Apart DEF Init
  <1> QED BY <1>1 DEF EarnedInv, RewardMatchesStreak, RewardCurrent, MonthlyBonusEarned, MonthAttended

\* The tables stay, and the API's job stays, ends or goes on.
LEMMA EarnedKept ==
    ASSUME Typed, EarnedInv, UNCHANGED <<checkins, bonuses, today>>,
           \/ job'["api"] = Idle \/ job'["api"] = job["api"]
           \/ job["api"] # Idle /\ \E S, n : Onward(job["api"], job'["api"], S, n)
    PROVE  EarnedInv'
  <1>1. RewardMatchesStreak' /\ MonthlyBonusEarned'
    BY DEF EarnedInv, RewardMatchesStreak, MonthlyBonusEarned, Dates
  <1>2. CASE job'["api"] = Idle
    BY <1>1, <1>2 DEF EarnedInv, RewardCurrent, MonthAttended
  <1>3. CASE job'["api"] # Idle
    <2> DEFINE w == job["api"].worker
    <2>1. /\ job["api"] # Idle /\ job'["api"].op = job["api"].op /\ job'["api"].worker = w
          /\ job'["api"].amount = job["api"].amount /\ job'["api"].ref = job["api"].ref
          /\ Ahead(job["api"])' \subseteq Ahead(job["api"])
      BY <1>3 DEF Onward, Ahead
    <2>2. {r.day : r \in checkins'[w]} = {r.day : r \in checkins[w]}
      OBVIOUS
    <2>3. RewardCurrent'
      BY <2>1, <2>2 DEF EarnedInv, RewardCurrent, Dates
    <2>4. MonthAttended'
      BY <2>1, <2>2 DEF EarnedInv, MonthAttended, Dates
    <2> QED BY <1>1, <2>3, <2>4 DEF EarnedInv
  <1> QED BY <1>2, <1>3

LEMMA InsertCheckinEarned ==
    ASSUME Typed, EarnedInv, InsertCheckin("api")
    PROVE  EarnedInv'
  <1> DEFINE j == job["api"]
             w == j.worker
             n == StreakDays(Dates(w), today)
             row == CheckinOf(j)
  <1>1. /\ Step("api", "checkin") /\ w \in Workers /\ j.op = "checkin" /\ row \in CheckinRow
        /\ Advance("api") /\ UNCHANGED <<bonuses, today>>
        /\ checkins'[w] = checkins[w] \cup {row}
        /\ \A v \in Workers \ {w} : checkins'[v] = checkins[v]
    BY Apart, InsertCheckinIs DEF clock
  <1>2. /\ j # Idle
        /\ \/ job'["api"] = Idle
           \/ Onward(j, job'["api"], {"checkin"}, j.tx)
    BY <1>1, Apart, StepIs, AdvanceIs
  <1>3. RewardMatchesStreak'
    <2>1. /\ row.day = today /\ row.began = j.ref /\ row.amount = j.amount /\ row.streak = n + 1
          /\ n \in Nat
      BY <1>1, DatesAreDays, StreakNat DEF CheckinOf, Typed
    <2>2. j.ref = today => j.amount = Reward(n)
      BY <1>1, <1>2, Apart, StepIs DEF EarnedInv, RewardCurrent
    <2> HIDE DEF row, n
    <2>3. row.began = row.day => row.amount = Reward(row.streak - 1)
      <3>1. (n + 1) - 1 = n
        BY <2>1
      <3> QED BY <2>1, <2>2, <3>1
    <2> QED BY <1>1, <2>3 DEF EarnedInv, RewardMatchesStreak
  <1>4. \A v \in Workers : {r.day : r \in checkins[v]} \subseteq {r.day : r \in checkins'[v]}
    BY <1>1
  <1>5. MonthlyBonusEarned'
    BY <1>1, <1>4 DEF EarnedInv, MonthlyBonusEarned, Dates
  <1>6. RewardCurrent' /\ MonthAttended'
    <2>1. CASE job'["api"] = Idle
      BY <2>1 DEF RewardCurrent, MonthAttended
    <2>2. CASE Onward(j, job'["api"], {"checkin"}, j.tx)
      <3>1. "checkin" \notin Ahead(job["api"])' /\ job'["api"].op = "checkin"
        BY <1>1, <2>2 DEF Onward, Ahead
      <3> QED BY <3>1 DEF RewardCurrent, MonthAttended
    <2> QED BY <1>2, <2>1, <2>2
  <1> QED BY <1>3, <1>5, <1>6 DEF EarnedInv

LEMMA InsertBonusEarned ==
    ASSUME Typed, EarnedInv, InsertBonus("api")
    PROVE  EarnedInv'
  <1> DEFINE j == job["api"]
             w == j.worker
  <1>1. /\ Step("api", "bonus") /\ w \in Workers /\ j # Idle /\ j.op = "monthly"
        /\ Advance("api") /\ UNCHANGED <<checkins, today>>
        /\ bonuses'[w] = bonuses[w] \cup {j.ref}
        /\ \A v \in Workers \ {w} : bonuses'[v] = bonuses[v]
    BY Apart, InsertBonusIs DEF clock
  <1>2. \/ job'["api"] = Idle
        \/ Onward(j, job'["api"], {"bonus"}, j.tx)
    BY <1>1, Apart, AdvanceIs
  <1>3. RewardMatchesStreak'
    BY <1>1 DEF EarnedInv, RewardMatchesStreak
  <1>4. \A v : {r.day : r \in checkins'[v]} = {r.day : r \in checkins[v]}
    BY <1>1
  <1>5. \A d \in Days : MonthOf(d) = j.ref => d < today /\ d \in Dates(w)
    BY <1>1 DEF EarnedInv, MonthAttended
  <1>6. MonthlyBonusEarned'
    BY <1>1, <1>4, <1>5 DEF EarnedInv, MonthlyBonusEarned, Dates
  <1>7. RewardCurrent' /\ MonthAttended'
    <2>1. CASE job'["api"] = Idle
      BY <2>1 DEF RewardCurrent, MonthAttended
    <2>2. CASE Onward(j, job'["api"], {"bonus"}, j.tx)
      <3>1. job'["api"].op = "monthly" /\ job'["api"].ref = j.ref /\ job'["api"].worker = w
        BY <1>1, <2>2 DEF Onward
      <3>2. MonthAttended'
        BY <1>1, <1>4, <1>5, <3>1 DEF MonthAttended, Dates
      <3> QED BY <3>1, <3>2 DEF RewardCurrent
    <2> QED BY <1>2, <2>1, <2>2
  <1> QED BY <1>3, <1>6, <1>7 DEF EarnedInv

LEMMA CheckMonthEarned ==
    ASSUME Typed, EarnedInv, CheckMonth("api")
    PROVE  EarnedInv'
  <1> DEFINE w == job["api"].worker
             m == MonthOf(today) - 1
             r == job'["api"]
  <1>1. /\ w \in Workers /\ UNCHANGED <<checkins, bonuses, today>>
        /\ \/ r = Idle
           \/ /\ r.op = "monthly" /\ r.worker = w /\ r.ref = m
              /\ \A d \in Days : MonthOf(d) = m => d \in Dates(w)
    BY Apart, CheckMonthIs DEF rows, clock
  <1>2. ASSUME NEW d \in Days, MonthOf(d) = m PROVE d < today
    <2> DEFINE M == MonthOf(d)
    <2>1. today \in Nat /\ d \in Nat /\ MonthDays \in Nat
      BY MaxDayIs, CreditsAssumption DEF Typed, TypeOK
    <2>2. /\ M \in Int /\ MonthOf(today) \in Int
          /\ d <= M * MonthDays + MonthDays
          /\ MonthOf(today) * MonthDays + 1 <= today
      BY <2>1, MonthBounds
    <2>3. MonthOf(today) = M + 1
      BY <1>2, <2>2
    <2> HIDE DEF M
    <2>4. (M + 1) * MonthDays = M * MonthDays + MonthDays /\ M * MonthDays \in Int
      BY <2>1, <2>2
    <2> QED BY <2>1, <2>2, <2>3, <2>4
  <1>3. RewardMatchesStreak' /\ MonthlyBonusEarned'
    BY <1>1 DEF EarnedInv, RewardMatchesStreak, MonthlyBonusEarned, Dates
  <1>4. RewardCurrent' /\ MonthAttended'
    <2>1. CASE r = Idle
      BY <2>1 DEF RewardCurrent, MonthAttended
    <2>2. CASE r # Idle
      <3>1. \A v : {x.day : x \in checkins'[v]} = {x.day : x \in checkins[v]}
        BY <1>1
      <3>2. MonthAttended'
        BY <1>1, <1>2, <2>2, <3>1 DEF MonthAttended, Dates
      <3> QED BY <1>1, <2>2, <3>2 DEF RewardCurrent
    <2> QED BY <2>1, <2>2
  <1> QED BY <1>3, <1>4 DEF EarnedInv

LEMMA DeleteWorkerEarned ==
    ASSUME Typed, EarnedInv, DeleteWorker("api")
    PROVE  EarnedInv'
  <1> DEFINE w == job["api"].worker
  <1>1. /\ job'["api"] = Idle /\ UNCHANGED <<bonuses, today>>
        /\ \/ UNCHANGED checkins
           \/ /\ bonuses[w] = {}
              /\ checkins' = [v \in Workers |-> IF v = w THEN {} ELSE checkins[v]]
    BY Apart, DeleteWorkerIs DEF clock
  <1>2. RewardCurrent' /\ MonthAttended'
    BY <1>1 DEF RewardCurrent, MonthAttended
  <1> HIDE DEF w
  <1>3. RewardMatchesStreak'
    BY <1>1 DEF EarnedInv, RewardMatchesStreak
  <1>4. MonthlyBonusEarned'
    <2>1. \A v \in Workers : bonuses'[v] # {} => checkins'[v] = checkins[v]
      BY <1>1
    <2> QED BY <1>1, <2>1 DEF EarnedInv, MonthlyBonusEarned, Dates
  <1> QED BY <1>2, <1>3, <1>4 DEF EarnedInv

LEMMA ContinueEarned ==
    ASSUME Typed, EarnedInv, NEW a \in Actors, Continue(a)
    PROVE  EarnedInv'
  <1>1. CASE \/ InsertCheckin(a) \/ InsertBonus(a) \/ CheckMonth(a) \/ DeleteWorker(a)
    <2>1. a = "api"
      BY <1>1, InsertCheckinIs, InsertBonusIs, CheckMonthIs, DeleteWorkerIs
    <2> QED BY <1>1, <2>1, InsertCheckinEarned, InsertBonusEarned, CheckMonthEarned, DeleteWorkerEarned
  <1>2. ASSUME UNCHANGED <<checkins, bonuses, today>>, ~CheckMonth(a) PROVE EarnedInv'
    <2>1. Moves(a)
      BY ContinueMoves
    <2>2. \/ job'["api"] = Idle \/ job'["api"] = job["api"]
          \/ job["api"] # Idle /\ \E S, n : Onward(job["api"], job'["api"], S, n)
          \/ a = "api" /\ job'["api"].op = "monthly"
      BY <2>1, Apart DEF Moves, Others
    <2>3. a = "api" => job'["api"] = Idle \/ \E S, n : Onward(job["api"], job'["api"], S, n)
      <3>1. ASSUME a = "api", NEW s, s # "send", Step(a, s), Advance(a) \/ Finish(a)
            PROVE  job'["api"] = Idle \/ \E S, n : Onward(job["api"], job'["api"], S, n)
        BY <3>1, AdvanceIs, FinishIs
      <3>2. ASSUME a = "api", NEW s \in Chain, Step(a, s), OnFailure(a) \/ (s = "send" /\ Sends(a))
            PROVE  job'["api"] = Idle \/ \E S, n : Onward(job["api"], job'["api"], S, n)
        BY <3>2, FailureIs, SendsIs
      <3>3. CASE Send(a) \/ Receipt(a) \/ Timeout(a)
        BY <3>1, <3>2, <3>3 DEF Send, Sends, Receipt, Timeout, Chain
      <3>4. CASE \/ AddTokens(a) \/ RecordHistory(a) \/ DrawCertificate(a)
                 \/ InsertCheckin(a) \/ InsertBonus(a) \/ DeleteWorker(a)
        BY <3>1, <3>4 DEF AddTokens, RecordHistory, DrawCertificate, InsertCheckin, InsertBonus, DeleteWorker
      <3>5. CASE UseTokens(a)
        BY <3>1, <3>5 DEF UseTokens
      <3> QED BY <1>2, <3>3, <3>4, <3>5 DEF Continue
    <2>4. Moves(a) => job[a] # Idle
      BY DEF Moves
    <2> QED BY <1>2, <2>1, <2>2, <2>3, <2>4, EarnedKept
  <1> QED BY <1>1, <1>2 DEF Continue, Send, Receipt, Timeout, AddTokens, UseTokens, RecordHistory,
         DrawCertificate, rows, clock

LEMMA AskedEarned ==
    ASSUME Typed, EarnedInv, NEW w \in Workers, Asked(w)
    PROVE  EarnedInv'
  <1>1. UNCHANGED <<checkins, bonuses, today>>
    BY DEF Asked, rows
  <1>2. CASE job'["api"] = job["api"]
    BY <1>1, <1>2, EarnedKept
  <1>3. CASE job'["api"] # job["api"]
    <2>1. Begun("api", w)
      BY <1>3, Apart DEF Asked, Begun, Others
    <2>2. RewardMatchesStreak' /\ MonthlyBonusEarned'
      BY <1>1 DEF EarnedInv, RewardMatchesStreak, MonthlyBonusEarned, Dates
    <2>3. {r.day : r \in checkins'[w]} = {r.day : r \in checkins[w]}
      BY <1>1
    <2>4. RewardCurrent' /\ MonthAttended'
      BY <1>1, <2>1, <2>3 DEF Begun, RewardCurrent, MonthAttended, Dates
    <2> QED BY <2>2, <2>4 DEF EarnedInv
  <1> QED BY <1>2, <1>3

\* Midnight: a reward that was worked out yesterday is no longer compared.
LEMMA NextDayEarned ==
    ASSUME Typed, EarnedInv, NextDay
    PROVE  EarnedInv'
  <1>1. today' = today + 1 /\ today \in Nat /\ UNCHANGED <<checkins, bonuses, job>>
    BY MaxDayIs DEF NextDay, rows, Typed, TypeOK
  <1>2. RewardMatchesStreak'
    BY <1>1 DEF EarnedInv, RewardMatchesStreak
  <1>3. \A v : {r.day : r \in checkins'[v]} = {r.day : r \in checkins[v]}
    BY <1>1
  <1>4. \A d \in Days : d < today => d < today'
    BY <1>1, MaxDayIs
  <1>5. MonthlyBonusEarned'
    BY <1>1, <1>3, <1>4 DEF EarnedInv, MonthlyBonusEarned, Dates
  <1>6. MonthAttended'
    BY <1>1, <1>3, <1>4 DEF EarnedInv, MonthAttended, Dates
  <1>7. RewardCurrent'
    <2>1. job["api"] # Idle /\ job["api"].op = "checkin" => job["api"].ref # today'
      BY <1>1, Apart DEF Typed, JobInv
    <2> QED BY <1>1, <2>1 DEF RewardCurrent
  <1> QED BY <1>2, <1>5, <1>6, <1>7 DEF EarnedInv

LEMMA StepEarned == Typed /\ EarnedInv /\ [Next]_vars => EarnedInv'
  <1> SUFFICES ASSUME Typed, EarnedInv, [Next]_vars PROVE EarnedInv'
    OBVIOUS
  <1>1. Acts
    BY NextIs
  <1>2. ASSUME NEW i, Mined(i) PROVE EarnedInv'
    BY <1>2, EarnedKept DEF Mined, rows, clock
  <1>3. ASSUME NEW w \in Workers, Apply(w) PROVE EarnedInv'
    BY <1>3, EarnedKept DEF Apply, rows, clock
  <1>4. CASE Crashed
    <2>1. /\ UNCHANGED <<checkins, bonuses, today>>
          /\ job'["api"] = Idle \/ job'["api"] = job["api"]
      BY <1>4, Apart DEF Crashed, rows, clock
    <2> QED BY <2>1, EarnedKept
  <1>5. CASE UNCHANGED vars
    BY <1>5, EarnedKept DEF vars, rows, clock
  <1> QED BY <1>1, <1>2, <1>3, <1>4, <1>5, ContinueEarned, AskedEarned, NextDayEarned DEF Acts

LEMMA EarnedHolds == Spec => []EarnedInv
  <1> QED BY InitEarned, StepEarned, TypedAlways, PTL DEF Spec

\* However long the call to the chain takes: a check-in written on the day it
\* was asked for is rewarded for the streak its row shows (daily_checkin,
\* create_daily_checkin).
THEOREM RewardsMatch == Spec => []RewardMatchesStreak
  <1>1. EarnedInv => RewardMatchesStreak
    BY DEF EarnedInv
  <1> QED BY <1>1, EarnedHolds, PTL

\* Whatever the length of a month, and however the call to the chain is
\* delayed: a perfect-attendance bonus is recorded only for a month that is
\* over, with a check-in on every day of it (_check_and_give_monthly_bonus,
\* check_perfect_attendance).
THEOREM BonusesAreEarned == Spec => []MonthlyBonusEarned
  <1>1. EarnedInv => MonthlyBonusEarned
    BY DEF EarnedInv
  <1> QED BY <1>1, EarnedHolds, PTL
=============================================================================
