------------------------------- MODULE Chunk -------------------------------
(***************************************************************************)
(* The four byte header of the chunk format (pack.h): a command travels    *)
(* from a client, which sends its packet_s as it lies in memory, to        *)
(* socketManager, which puts the fields together from single bytes; the    *)
(* answer is taken apart by socketManager and read by the client, which    *)
(* looks at the low byte of either field only.                             *)
(***************************************************************************)
EXTENDS Integers, Sequences

CONSTANTS
  TextLens,  \* the lengths of the texts that DAC_SYS_DBG carries
  Overrun,   \* bound on the bytes strlen reads behind an unterminated text
  None       \* no fields yet

ASSUME TextsFitTheBuffer == TextLens \subseteq Nat /\ \A l \in TextLens : 0 < l /\ l <= 496
ASSUME OverrunIsShort == Overrun \in Nat /\ Overrun <= 1000

DAC_CFG_CHANGE_NOTIFIER == 0
DAC_CFG_REQ  == 275
DAC_CFG_RES  == 2
DAC_CFG_MDFY == 3
DAC_SYS_DBG  == 4
SizeofCfg    == 34

Byte == { b \in Nat : b < 256 }
Word == { w \in Nat : w < 65536 }

\* A uint8_t keeps the low byte of what is assigned to it.
Low(w)  == w % 256
High(w) == (w \div 256) % 256
\* a | (b << 8) in a uint16_t
Join(a, b) == (a + 256 * b) % 65536

\* send(s, pack2Send, ...): the fields as a little-endian machine stores them.
StructBytes(dac, len) == <<Low(dac), High(dac), Low(len), High(len)>>

\* socketManager, on what recv has put into interfaceBuf
\* Mutant: one byte, as the test clients read it.
ParseDacLow(buf) == buf[1]
ParseDac(buf) == Join(buf[1], buf[2])
ParseLen(buf) == Join(buf[3], buf[4])

\* socketManager, on the packet it takes from llistTx; the last byte is
\* computed from dac.
\* Mutant: the length in network order.
AnswerBytesSwapped(dac, len) == <<Low(dac), High(dac), High(len), Low(len)>>
AnswerBytes(dac, len) == <<Low(dac), High(dac), Low(len), High(dac)>>

VARIABLES
  pc,       \* where the exchange is
  request,  \* the fields of the client's command
  parsed,   \* the fields the server has parsed
  answer,   \* the fields of the server's answer
  shown     \* the fields the client has parsed
vars == <<pc, request, parsed, answer, shown>>

Fields(dac, len) == [dac |-> dac, len |-> len]

Init ==
  /\ pc = "send"
  /\ request = None /\ parsed = None /\ answer = None /\ shown = None

\* genCfg_Req, genCfg_MDFY or genSys_Dbg, and the client's send
Gen(dac, len) ==
  /\ request' = Fields(dac, len)
  /\ pc' = "parse"
  /\ UNCHANGED <<parsed, answer, shown>>

Send ==
  /\ pc = "send"
  /\ \/ Gen(DAC_CFG_REQ, 0)
     \/ Gen(DAC_CFG_MDFY, SizeofCfg)
     \/ \E l \in TextLens : Gen(DAC_SYS_DBG, l)

Parse ==
  /\ pc = "parse"
  /\ LET buf == StructBytes(request.dac, request.len)
     IN parsed' = Fields(ParseDac(buf), ParseLen(buf))
  /\ pc' = "handle"
  /\ UNCHANGED <<request, answer, shown>>

\* genCfg_Res or genSys_Dbg in the handler; a modification is not answered.
\* The length of a text is found anew with strlen: a client that sends the
\* terminating zero as part of the text gets an answer without it; without one
\* strlen reads on until it meets a zero behind the block.
Handle ==
  /\ pc = "handle"
  /\ \/ /\ parsed.dac = DAC_CFG_REQ
        /\ answer' = Fields(DAC_CFG_RES, SizeofCfg)
        /\ pc' = "show"
     \/ /\ parsed.dac = DAC_SYS_DBG
        /\ \E n \in (parsed.len - 1) .. (parsed.len + Overrun) :
             answer' = Fields(DAC_SYS_DBG, n)
        /\ pc' = "show"
     \/ /\ parsed.dac \notin {DAC_CFG_REQ, DAC_SYS_DBG}
        /\ pc' = "done"
        /\ UNCHANGED answer
  /\ UNCHANGED <<request, parsed, shown>>

\* The client parses interfaceBuf as recv has delivered it.
Show(Parser(_)) ==
  /\ pc = "show"
  /\ shown' = Parser(AnswerBytes(answer.dac, answer.len))
  /\ pc' = "done"
  /\ UNCHANGED <<request, parsed, answer>>

\* test/client*.c: the low bytes
LowBytes(buf) == Fields(buf[1], buf[3])
\* a client that reads both bytes, as the server does
BothBytes(buf) == Fields(ParseDac(buf), ParseLen(buf))

Again ==
  /\ pc = "done"
  /\ pc' = "send"
  /\ request' = None /\ parsed' = None /\ answer' = None /\ shown' = None

Next == Send \/ Parse \/ Handle \/ Show(LowBytes) \/ Show(BothBytes) \/ Again

Spec == Init /\ [][Next]_vars

-----------------------------------------------------------------------------
(* Properties.                                                             *)

\* The variables keep to their domains: fields are 16 bits wide.
TypeOK ==
  /\ pc \in {"send", "parse", "handle", "show", "done"}
  /\ \A f \in {request, parsed, answer, shown} : f = None \/ f \in [dac : Word, len : Word]

\* The server parses what the client has sent, whichever the command and
\* whatever its length: DAC_CFG_REQ needs both bytes of its field.
RequestArrives == pc \notin {"send", "parse"} => parsed = request

\* The client is shown the answer the server has made, as far as its length
\* fits into one byte, even if it looks at one byte of either field only.
ShortAnswerArrives == pc = "done" /\ answer # None /\ answer.len < 256 => shown = answer
=============================================================================
