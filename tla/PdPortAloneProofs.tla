-------------------------- MODULE PdPortAloneProofs --------------------------
(***************************************************************************)
(* Theorems about PdPortAlone: what holds of one port, whatever the        *)
(* partner, the cable, the timers and the application do - for every set   *)
(* of terms, every combination of features and both revisions.             *)
(***************************************************************************)
EXTENDS PdPortAlone, PdPortProofs

\* Every handler the environment may call keeps the port in order.
LEMMA StepInOrder ==
  ASSUME InOrder(port), [PortNext]_port
  PROVE  InOrder(port')
<1>1. ASSUME Attach PROVE InOrder(port')
  <2>1. port.client = "none"
    BY <1>1 DEF Attach, InOrder, ClientIn
  <2> QED BY <1>1, <2>1, AttachedKeeps DEF Attach
<1>2. ASSUME Detach PROVE InOrder(port')
  <2>1. InOrder(Disconnect(port, "detached"))
    BY DisconnectKeeps
  <2> QED BY <1>2, <2>1 DEF Detach, Detached
<1>3. ASSUME RecoveryOver PROVE InOrder(port')
  BY <1>3, RecoveryKeeps DEF RecoveryOver
<1>4. ASSUME Window PROVE InOrder(port')
  <2>1. CASE port.conn = "hard_reset_snk" /\ port' = WindowVbusGone(port)
    BY <2>1, WindowOpens
  <2>2. CASE /\ port.conn = "hard_reset_recover_snk"
             /\ \E ok \in BOOLEAN : port' = WindowVbusBack(port, ok)
    BY <2>2, WindowKeeps
  <2> QED BY <1>4, <2>1, <2>2 DEF Window
<1>5. ASSUME Receive PROVE InOrder(port')
  <2>1. Message \subseteq TxType
    <3>1. {"request"} \subseteq DataType
      BY DEF DataType
    <3> QED BY <3>1 DEF Message, TxType
  <2> QED BY <1>5, <2>1, ReceivedKeeps DEF Receive, Live
<1>6. ASSUME Transmitted PROVE InOrder(port')
  BY <1>6, TransmittedKeeps DEF Transmitted, Live
<1>7. ASSUME Reset PROVE InOrder(port')
  <2>1. port.tx = HardReset => port.client # "none"
    BY DEF InOrder, Loose, HardReset, Idle
  <2> QED BY <1>7, <2>1, ResetKeeps DEF Reset, Live
<1>8. ASSUME Timeout PROVE InOrder(port')
  BY <1>8, TimeoutKeeps, VconnTimeoutKeeps DEF Timeout
<1>9. ASSUME Supply PROVE InOrder(port')
  BY <1>9, SupplyKeeps DEF Supply
<1>10. ASSUME SeeRp PROVE InOrder(port')
  BY <1>10, SeeRpKeeps DEF SeeRp
<1>11. ASSUME Ask PROVE InOrder(port')
  <2>1. port.client # "none"
    BY <1>11 DEF Ask, Live
  <2>2. \A seq \in {"pr_swap", "dr_swap"} : InOrder(AskSwap(port, seq))
    BY <2>1, AskKeeps
  <2>3. InOrder(AskVconnSwap(port))
    BY <2>1, AskKeeps
  <2> QED BY <1>11, <2>2, <2>3 DEF Ask
<1>12. CASE UNCHANGED port
  BY <1>12
<1> QED BY <1>1, <1>2, <1>3, <1>4, <1>5, <1>6, <1>7, <1>8, <1>9, <1>10, <1>11, <1>12
        DEF PortNext

\* Every handler the environment may call ends with nothing halfway.
LEMMA StepThrough ==
  ASSUME InOrder(port), Through(port), [PortNext]_port
  PROVE  Through(port')
<1>2. ASSUME Attach PROVE Through(port')
  <2>1. port.client = "none"
    BY <1>2 DEF Attach, InOrder, ClientIn
  <2> QED BY <1>2, <2>1, AttachedThrough DEF Attach
<1>3. ASSUME Detach PROVE Through(port')
  <2>1. Through(Disconnect(port, "detached"))
    BY DisconnectThrough
  <2> QED BY <1>3, <2>1 DEF Detach, Detached
<1>4. ASSUME RecoveryOver PROVE Through(port')
  BY <1>4, RecoveryThrough DEF RecoveryOver
<1>5. ASSUME Window PROVE Through(port')
  <2>1. CASE port.conn = "hard_reset_snk" /\ port' = WindowVbusGone(port)
    BY <2>1, WindowOpensThrough
  <2>2. CASE /\ port.conn = "hard_reset_recover_snk"
             /\ \E ok \in BOOLEAN : port' = WindowVbusBack(port, ok)
    BY <2>2, WindowThrough
  <2> QED BY <1>5, <2>1, <2>2 DEF Window
<1>6. ASSUME Receive PROVE Through(port')
  <2>1. Message \subseteq TxType
    <3>1. {"request"} \subseteq DataType
      BY DEF DataType
    <3> QED BY <3>1 DEF Message, TxType
  <2> QED BY <1>6, <2>1, ReceivedThrough DEF Receive, Live
<1>7. ASSUME Transmitted PROVE Through(port')
  BY <1>7, TransmittedThrough DEF Transmitted, Live
<1>8. ASSUME Reset PROVE Through(port')
  <2>1. port.tx = HardReset => port.client # "none"
    BY DEF InOrder, Loose, HardReset, Idle
  <2> QED BY <1>8, <2>1, ResetThrough DEF Reset, Live
<1>9. ASSUME Timeout PROVE Through(port')
  BY <1>9, TimeoutThrough, VconnTimeoutThrough DEF Timeout
<1>10. ASSUME Supply PROVE Through(port')
  BY <1>10, SupplyThrough DEF Supply
<1>11. ASSUME SeeRp PROVE Through(port')
  BY <1>11, SeeRpThrough DEF SeeRp
<1>12. ASSUME Ask PROVE Through(port')
  <2>1. port.client # "none"
    BY <1>12 DEF Ask, Live
  <2>2. /\ \A seq \in {"pr_swap", "dr_swap"} : Through(AskSwap(port, seq))
        /\ Through(AskVconnSwap(port))
    BY <2>1, AskThrough
  <2> QED BY <1>12, <2>2 DEF Ask
<1>13. CASE UNCHANGED port
  BY <1>13
<1> QED BY <1>2, <1>3, <1>4, <1>5, <1>6, <1>7, <1>8, <1>9, <1>10, <1>11, <1>12, <1>13
        DEF PortNext

-----------------------------------------------------------------------------
\* The inductive invariant: a port between two handlers is in order.
THEOREM PortInOrder == PortSpec => []InOrder(port)
<1>1. PortInit => InOrder(port)
  BY NewPortInOrder DEF PortInit
<1>2. InOrder(port) /\ [PortNext]_port => InOrder(port)'
  BY StepInOrder
<1> QED BY <1>1, <1>2, PTL DEF PortSpec

\* A handler returns with no engine in transit - half way through a swap, a reset or
\* an answer which only its own word or the connection machine leads out of -, but
\* for the termination flip which the connection machine cannot follow.
THEOREM NothingHalfway == PortSpec => []NothingLeftHalfway
<1>1. PortInit => InOrder(port) /\ Through(port)
  BY NewPortInOrder, NewPortThrough DEF PortInit
<1>2. InOrder(port) /\ Through(port) /\ [PortNext]_port =>
        (InOrder(port) /\ Through(port))'
  BY StepInOrder, StepThrough
<1>3. Through(port) => NothingLeftHalfway
  BY DEF Through, NothingLeftHalfway
<1> QED BY <1>1, <1>2, <1>3, PTL DEF PortSpec

\* The domains of a port, each engine in a state of its own table.
THEOREM PortTypeCorrect == PortSpec => []PortTypeOK
<1>1. InOrder(port) => PortTypeOK
  BY DEF InOrder, Engines, PortTypeOK
<1> QED BY <1>1, PortInOrder, PTL

\* Whoever is not the layer's client rests: through attach, detach, resets and
\* both halves of a PR_Swap one engine is at work at most.
THEOREM OneEngine == PortSpec => []OneEngineAtWork
<1>1. InOrder(port) => OneEngineAtWork
  BY DEF InOrder, Solo, Rests, OneEngineAtWork
<1> QED BY <1>1, PortInOrder, PTL

\* The live engine is the one the connection machine's state calls for.
THEOREM ClientFits == PortSpec => []ClientFitsConnection
<1>1. InOrder(port) => ClientFitsConnection
  BY DEF InOrder, ClientIn, ClientFitsConnection
<1> QED BY <1>1, PortInOrder, PTL

\* The BIST test data mode never outlives the vSafe5V contract under which it
\* was entered: whatever ends the contract ends the mode, too.
THEOREM DeafOnly == PortSpec => []DeafOnlyUnderContract
<1>1. InOrder(port) => DeafOnlyUnderContract
  BY DEF InOrder, Solo, Rests, Engines, Deafened, DeafOnlyUnderContract
<1> QED BY <1>1, PortInOrder, PTL

\* The collision-avoidance Rp is shown under an explicit contract only, and a
\* source in Ready never tells its sink to be silent.
THEOREM RpFits == PortSpec => []RpFitsLevel
<1>1. InOrder(port) => RpFitsLevel
  <2>1. SourceLevel("startup") # "explicit_contract"
    BY DEF SourceLevel
  <2> QED BY <2>1 DEF InOrder, Solo, Rests, Resting, Engines, RpShown, RpFitsLevel, Role
<1> QED BY <1>1, PortInOrder, PTL

\* In Ready the sink holds a contract, and its load is limited to it.
THEOREM ReadyContract == PortSpec => []ReadyUnderContract
<1>1. InOrder(port) => ReadyUnderContract
  <2>1. SinkLevel("ready") = "explicit_contract"
    BY DEF SinkLevel
  <2> QED BY <2>1 DEF InOrder, Engines, Drawing, Off, ReadyUnderContract
<1> QED BY <1>1, PortInOrder, PTL
=============================================================================
