------------------------------ MODULE MC_Parts ------------------------------
(* Instance for TLC of the parts of the library that share no state: a     *)
(* behaviour is about one of them, its job.  The runs of a trap, the masks *)
(* of threads that construct and destroy traps, the creation of the        *)
(* observer, the environment, one walk over a stack, reads of              *)
(* /proc/../stat, one exec(), or reads and writes of the adjustments.      *)
EXTENDS SignalTrap, SignalMasks, ObserverFactory, Environment, Backtrace, ProcStat,
        Exec, OomAdjust

VARIABLE job

AssignedValues ==
  [OomAdj |-> {-18, -17, -16, 3, 15, 16}, OomScoreAdj |-> {-1001, -1000, 3, 1000, 1001}]

PartsInit ==
  /\ job \in {"trap", "masks", "observer", "env", "backtrace", "stat", "exec", "adjust"}
  /\ Init /\ MkInit /\ OfInit /\ StInit /\ EvInit /\ OmInit
  /\ BtInit(IF job = "backtrace" THEN SeqOf(Frame, MaxStack) ELSE {<<>>})
  /\ ExInit(IF job = "exec" THEN SeqOf(EnvLine, MaxLines) ELSE {<<>>})
  /\ job # "env" => environ = <<>>
  /\ job # "exec" => argc = 0
  /\ job # "adjust" => kind = "OomScore"

Part(name, step, unchanged) == job = name /\ step /\ unchanged /\ UNCHANGED job

PartsNext ==
  \/ Part("trap", Next,
          UNCHANGED <<mkVars, ofVars, evVars, btVars, stVars, exVars, omVars>>)
  \/ Part("masks", MkNext,
          UNCHANGED <<vars, ofVars, evVars, btVars, stVars, exVars, omVars>>)
  \/ Part("observer", OfNext,
          UNCHANGED <<vars, mkVars, evVars, btVars, stVars, exVars, omVars>>)
  \/ Part("env", EvNext,
          UNCHANGED <<vars, mkVars, ofVars, btVars, stVars, exVars, omVars>>)
  \/ Part("backtrace", BtNext,
          UNCHANGED <<vars, mkVars, ofVars, evVars, stVars, exVars, omVars>>)
  \/ Part("stat", StNext,
          UNCHANGED <<vars, mkVars, ofVars, evVars, btVars, exVars, omVars>>)
  \/ Part("exec", ExNext,
          UNCHANGED <<vars, mkVars, ofVars, evVars, btVars, stVars, omVars>>)
  \/ Part("adjust", OmNext,
          UNCHANGED <<vars, mkVars, ofVars, evVars, btVars, stVars, exVars>>)

PartsSpec ==
  /\ PartsInit
  /\ [][PartsNext]_<<job, vars, mkVars, ofVars, evVars, btVars, stVars, exVars, omVars>>
  /\ \A r \in Runner : WF_vars(Running(r))
  /\ \A t \in Caller : WF_evVars(Proceed(t))
=============================================================================
