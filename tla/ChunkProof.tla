----------------------------- MODULE ChunkProof -----------------------------
(* Proofs about Chunk, for every set of text lengths and every overrun.     *)
EXTENDS Chunk, TLAPS

\* The two bytes of a 16 bit field give the field back.
LEMMA JoinSplit ==
  ASSUME NEW w \in Word
  PROVE  /\ Low(w) \in Byte /\ High(w) \in Byte
         /\ Join(Low(w), High(w)) = w
<1> DEFINE q == w \div 256
           r == w % 256
<1>1. /\ w \in Int /\ 0 <= w /\ w <= 65535
      /\ q \in Int
      /\ r \in Int /\ 0 <= r /\ r <= 255
      /\ w = 256 * q + r
  BY SMT DEF Word
<1> HIDE DEF q, r
<1>2. 0 <= q /\ q <= 255
  BY <1>1, SMT
<1>3. q % 256 = q
  BY <1>1, <1>2, SMT
<1>4. (r + 256 * q) % 65536 = r + 256 * q
  BY <1>1, <1>2, SMT
<1> QED
  BY <1>1, <1>2, <1>3, <1>4 DEF Low, High, Join, Byte, q, r

-----------------------------------------------------------------------------
\* The fields of the commands and answers the code makes.
Command == [dac : {DAC_CFG_REQ, DAC_CFG_MDFY, DAC_SYS_DBG}, len : { l \in Nat : l <= 496 }]
Answer  == [dac : {DAC_CFG_RES, DAC_SYS_DBG}, len : Word]

\* What holds at each stage of the exchange.
IInv ==
  /\ pc \in {"send", "parse", "handle", "show", "done"}
  /\ pc = "send"  => request = None /\ parsed = None /\ answer = None /\ shown = None
  /\ pc # "send"  => request \in Command /\ (request.dac = DAC_SYS_DBG => request.len > 0)
  /\ pc = "parse" => parsed = None /\ answer = None /\ shown = None
  /\ pc \in {"handle", "show", "done"} => parsed = request
  /\ pc = "handle" => answer = None /\ shown = None
  /\ pc = "show"  => answer \in Answer /\ shown = None
  /\ pc = "done"  => \/ answer = None /\ shown = None
                     \/ /\ answer \in Answer
                        /\ shown \in [dac : Word, len : Word]
                        /\ answer.len < 256 => shown = answer

\* The test clients and a client that reads the whole header are both shown an
\* answer whose length fits into one byte.
LEMMA ShortAnswer ==
  ASSUME NEW a \in Answer
  PROVE  LET buf == AnswerBytes(a.dac, a.len)
         IN \A p \in {LowBytes(buf), BothBytes(buf)} :
              /\ p \in [dac : Word, len : Word]
              /\ a.len < 256 => p = a
<1> SUFFICES ASSUME NEW p \in {LowBytes(AnswerBytes(a.dac, a.len)),
                               BothBytes(AnswerBytes(a.dac, a.len))}
             PROVE  p \in [dac : Word, len : Word] /\ (a.len < 256 => p = a)
  OBVIOUS
<1>1. /\ a.dac \in {2, 4} /\ a.len \in Word /\ a = [dac |-> a.dac, len |-> a.len]
      /\ a.len \in Int /\ 0 <= a.len
  BY DEF Answer, DAC_CFG_RES, DAC_SYS_DBG, Word
<1>2. Low(a.dac) = a.dac /\ High(a.dac) = 0
  BY <1>1, SMT DEF Low, High
<1>3. Low(a.len) \in Byte /\ (a.len < 256 => Low(a.len) = a.len)
  BY <1>1, JoinSplit, SMT DEF Low
<1>4. \A b \in Byte : Join(b, 0) = b
  BY SMT DEF Join, Byte
<1>5. p = [dac |-> a.dac, len |-> Low(a.len)]
  BY <1>1, <1>2, <1>3, <1>4 DEF LowBytes, BothBytes, ParseDac, ParseLen, AnswerBytes, Fields, Byte
<1> QED
  BY <1>1, <1>3, <1>5 DEF Byte, Word

\* Before the first command every field is empty.
LEMMA Initially == Init => IInv
BY DEF Init, IInv

\* Each of the client's and the server's steps on a header keeps IInv.
LEMMA Inductive == IInv /\ [Next]_vars => IInv'
<1> SUFFICES ASSUME IInv, [Next]_vars PROVE IInv'
  OBVIOUS
<1> USE DEF IInv
<1>1. CASE Send
  <2> SUFFICES ASSUME NEW d \in {DAC_CFG_REQ, DAC_CFG_MDFY, DAC_SYS_DBG}, NEW l \in { n \in Nat : n <= 496 },
                      pc = "send", Gen(d, l), d = DAC_SYS_DBG => l > 0
               PROVE  IInv'
    BY <1>1, TextsFitTheBuffer DEF Send, SizeofCfg, DAC_CFG_REQ, DAC_CFG_MDFY, DAC_SYS_DBG
  <2> QED
    BY DEF Gen, Fields, Command
<1>2. CASE Parse
  <2>1. request.dac \in Word /\ request.len \in Word
        /\ request = Fields(request.dac, request.len)
    BY <1>2 DEF Parse, Command, Fields, Word, DAC_CFG_REQ, DAC_CFG_MDFY, DAC_SYS_DBG
  <2>2. parsed' = request
    BY <1>2, <2>1, JoinSplit DEF Parse, StructBytes, ParseDac, ParseLen
  <2> QED
    BY <1>2, <2>2 DEF Parse
<1>3. CASE Handle
  <2>1. CASE answer' = answer /\ pc' = "done"
    BY <1>3, <2>1 DEF Handle
  <2>2. CASE answer' \in Answer /\ pc' = "show"
    BY <1>3, <2>2 DEF Handle
  <2>3. \A n \in (parsed.len - 1) .. (parsed.len + Overrun) :
          parsed.dac = DAC_SYS_DBG => Fields(DAC_SYS_DBG, n) \in Answer
    BY <1>3, OverrunIsShort DEF Handle, Command, Answer, Fields, Word
  <2>4. Fields(DAC_CFG_RES, SizeofCfg) \in Answer
    BY DEF Fields, Answer, Word, SizeofCfg
  <2> QED
    BY <1>3, <2>1, <2>2, <2>3, <2>4 DEF Handle
<1>4. CASE Show(LowBytes) \/ Show(BothBytes)
  BY <1>4, ShortAnswer DEF Show
<1>5. CASE Again
  BY <1>5 DEF Again
<1>6. CASE UNCHANGED vars
  BY <1>6 DEF vars
<1> QED
  BY <1>1, <1>2, <1>3, <1>4, <1>5, <1>6 DEF Next

\* What the two ends know of a header holds throughout every exchange.
THEOREM Invariance == Spec => []IInv
BY Initially, Inductive, PTL DEF Spec

\* Fields keep to 16 bits.
THEOREM TypeCorrect == Spec => []TypeOK
<1>1. IInv => TypeOK
  BY DEF IInv, TypeOK, Command, Answer, Word, DAC_CFG_REQ, DAC_CFG_MDFY, DAC_SYS_DBG,
         DAC_CFG_RES
<1> QED
  BY <1>1, Invariance, PTL

\* socketManager parses what the client has sent.
THEOREM RequestsArrive == Spec => []RequestArrives
<1>1. IInv => RequestArrives
  BY DEF IInv, RequestArrives
<1> QED
  BY <1>1, Invariance, PTL

\* The client is shown the answer the server has made if its length is below 256.
THEOREM ShortAnswersArrive == Spec => []ShortAnswerArrives
<1>1. IInv => ShortAnswerArrives
  BY DEF IInv, ShortAnswerArrives
<1> QED
  BY <1>1, Invariance, PTL
=============================================================================
