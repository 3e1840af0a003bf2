--------------------------- MODULE MCIntegrations ---------------------------
(***************************************************************************)
(* Model-checking support for what stands between the core and an          *)
(* application: the stream gate, the loops and handlers of the connectors  *)
(* and their single calls, the vector-store connectors, the shadow log,    *)
(* the commands that write the .env file, the composite validators and the *)
(* verdicts of the pattern validators.  Each behaviour exercises one of    *)
(* them, the subject, and leaves the others as they are.                   *)
(* Nothing tells the shadow log's appends, rooms and contents apart.       *)
(***************************************************************************)
EXTENDS ClientSafeStream, ProviderStreams, PullStream, GuardedCalls,
        VectorStores, EnvFile, MCShadowLog, Composites, Verdicts

VARIABLE subject

integrationsVars ==
  <<subject, clientVars, providerVars, pullVars, guardedVars, storeVars, envVars,
    shadowVars, compositesVars, verdictsVars>>

Subjects ==
  {"gate", "provider", "pull", "call", "stores", "env", "shadow", "parts", "hits"}

(* The shadow log when it is not the subject.                               *)
ShadowIdle ==
  /\ policy = "refuse-write"
  /\ store = [r \in Rooms |-> <<>>] /\ queue = [r \in Rooms |-> <<>>]
  /\ pc = [a \in Appends |-> "done"] /\ outcome = [a \in Appends |-> "none"]
  /\ \E r \in Rooms : room = [a \in Appends |-> r]
  /\ \E c \in Contents : content = [a \in Appends |-> c]
  /\ link = [a \in Appends |-> <<>>] /\ dropped = {}

IntegrationsInit ==
  /\ subject \in Subjects
  /\ ClientInit
  /\ ProviderInit /\ (subject # "provider" => loop = OpenAIBuffered)
  /\ PullInit /\ (subject # "pull" => handler = "gated" /\ upstream = 0)
  /\ GuardedInit /\ (subject # "call" => wrapper = VercelMCP /\ pieces = <<>>)
  /\ StoreInit /\ (subject # "stores" => connector = Chroma /\ way = "drop")
  /\ EnvInit
  /\ IF subject = "shadow" THEN ShadowInit ELSE ShadowIdle
  /\ IF subject = "parts" THEN CompositesInit
     ELSE /\ form = "call" /\ chain = <<>> /\ parts = <<>> /\ deep = {} /\ derived = <<>>
          /\ raw = <<>> /\ judged = 0 /\ survivors = <<>> /\ decision = "block"
  /\ IF subject = "hits" THEN VerdictsInit
     ELSE /\ judge = "xss" /\ action = "block" /\ sensitivity = "strict"
          /\ tracked = FALSE /\ past = 0 /\ hits = {}

GateStep ==
  /\ ClientNext
  /\ UNCHANGED <<providerVars, pullVars, guardedVars, storeVars, envVars,
                 shadowVars, compositesVars, verdictsVars>>

ProviderStep ==
  /\ ProviderNext
  /\ UNCHANGED <<clientVars, pullVars, guardedVars, storeVars, envVars,
                 shadowVars, compositesVars, verdictsVars>>

PullStep ==
  /\ PullNext
  /\ UNCHANGED <<clientVars, providerVars, guardedVars, storeVars, envVars,
                 shadowVars, compositesVars, verdictsVars>>

CallStep ==
  /\ GuardedNext
  /\ UNCHANGED <<clientVars, providerVars, pullVars, storeVars, envVars,
                 shadowVars, compositesVars, verdictsVars>>

StoreStep ==
  /\ StoreNext
  /\ UNCHANGED <<clientVars, providerVars, pullVars, guardedVars, envVars,
                 shadowVars, compositesVars, verdictsVars>>

EnvStep ==
  /\ EnvNext
  /\ UNCHANGED <<clientVars, providerVars, pullVars, guardedVars, storeVars,
                 shadowVars, compositesVars, verdictsVars>>

ShadowStep ==
  /\ ShadowNext
  /\ UNCHANGED <<clientVars, providerVars, pullVars, guardedVars, storeVars,
                 envVars, compositesVars, verdictsVars>>

PartsStep ==
  /\ CompositesNext
  /\ UNCHANGED <<clientVars, providerVars, pullVars, guardedVars, storeVars,
                 envVars, shadowVars, verdictsVars>>

HitsStep ==
  /\ VerdictsNext
  /\ UNCHANGED <<clientVars, providerVars, pullVars, guardedVars, storeVars,
                 envVars, shadowVars, compositesVars>>

IntegrationsNext ==
  /\ \/ subject = "gate" /\ GateStep
     \/ subject = "provider" /\ ProviderStep
     \/ subject = "pull" /\ PullStep
     \/ subject = "call" /\ CallStep
     \/ subject = "stores" /\ StoreStep
     \/ subject = "env" /\ EnvStep
     \/ subject = "shadow" /\ ShadowStep
     \/ subject = "parts" /\ PartsStep
     \/ subject = "hits" /\ HitsStep
  /\ UNCHANGED subject

IntegrationsSpec == IntegrationsInit /\ [][IntegrationsNext]_integrationsVars

(* The gate's chunks, with and without text, of the sizes that make the     *)
(* release conditions and the limit bite.                                   *)
Chunk(one, ends) ==
  [one |-> one, two |-> 0, three |-> 0, astral |-> 0, ends |-> ends]

TextFree == Chunk(0, "pad")
Word     == Chunk(1, "word")
Sentence == Chunk(2, "stop")
Long     == Chunk(4, "word")

GateChunks == {TextFree, Word, Sentence, Long}

(* The .env file has a value in quotes and a connector's variable that      *)
(* cannot be written back; other commands get past it by changing that one. *)
EnvFiles == {[KEY1 |-> "odd", KEY2 |-> "none", ELSES |-> "quoted"]}

(* Validators whose needles overlap, are longer than what is shown or reach *)
(* over the end of an entry; they show, mask or throw.                      *)
ChainJudges ==
  {[needle |-> <<"a", "a", "b">>, shows |-> "match", redacts |-> FALSE],
   [needle |-> <<"b", "n", "n", "a">>, shows |-> "throw", redacts |-> FALSE],
   [needle |-> <<"b", "a">>, shows |-> "mask", redacts |-> TRUE],
   [needle |-> <<"b">>, shows |-> "match", redacts |-> TRUE]}
PartTexts == {<<"b">>, <<"b", "a", "b", "a">>, <<"a", "a", "b">>}

(* Patterns of every level, one of which never blocks, and a synonym.       *)
PatternLevels == [ignore |-> 3, reset |-> 1, resetSyn |-> 0, web3 |-> 1]
Synonyms == [resetSyn |-> "reset"]
Tables == <<"ignore", "reset", "web3", "resetSyn">>
Thresholds == [strict |-> 2, standard |-> 3, permissive |-> 4]
=============================================================================
