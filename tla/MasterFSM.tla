------------------------------ MODULE MasterFSM ------------------------------
(***************************************************************************)
(* The two tables of the master state machine (src/lavigoMasterFSM.c): the *)
(* state that follows a state and an event, and the effect run before it   *)
(* is entered. Both give, per state, only the events that leave the state  *)
(* or do something; every other event is ignored.                          *)
(***************************************************************************)

MStates == {"flash", "regis", "engag", "runn", "diseng", "engup", "updat",
            "engap", "apSet", "enfba", "fbset", "enidl", "idset", "error"}

\* connection.c and validation.c queue cnnctd, cnter and vldsync; vlder, crtmss
\* and error are in the tables but no code queues them.
MEvents == {"flashOk", "crtld", "crtmss", "cnnctd", "cnter", "vldsync", "vlder",
            "engaged", "diseng", "trgup", "apSet", "trgfb", "fbset", "idtrg",
            "idset", "error"}

Effects == {"erro", "noop", "rgstr", "engag", "disen", "trgRunning", "updat",
            "apeng", "apdng", "fbdis", "trgfb", "fbSet", "trgid", "idset", "iddis"}

-----------------------------------------------------------------------------
\* Exits[s][t]: the events that take the machine from s to another state t.
Exits ==
  [flash  |-> [regis |-> {"flashOk", "crtmss"}, engag |-> {"crtld"},
               runn  |-> {"engaged"},
               error |-> {"diseng", "trgup", "apSet", "trgfb", "fbset", "idtrg",
                          "idset", "error"}],
   regis  |-> [engag |-> {"crtld"}, runn |-> {"engaged"}, enfba |-> {"trgfb"},
               enidl |-> {"idtrg"}, error |-> {"diseng", "trgup", "error"}],
   engag  |-> [diseng |-> {"flashOk"}, runn |-> {"engaged"},
               error |-> {"crtld", "crtmss", "diseng", "error"}],
   runn   |-> [diseng |-> {"flashOk"}, engup |-> {"trgup"}, engap |-> {"apSet"},
               enfba |-> {"trgfb", "fbset"}, enidl |-> {"idtrg"},
               error |-> {"crtld", "crtmss", "error"}],
   diseng |-> [regis |-> {"diseng"},
               error |-> {"flashOk", "crtld", "crtmss", "engaged", "error"}],
   engup  |-> [updat |-> {"diseng"},
               error |-> {"flashOk", "crtld", "crtmss", "engaged", "error"}],
   updat  |-> [error |-> {"flashOk", "crtmss", "engaged", "error"}],
   engap  |-> [apSet |-> {"diseng"},
               error |-> {"flashOk", "crtld", "crtmss", "engaged", "error"}],
   apSet  |-> [regis |-> {"diseng", "apSet", "trgfb", "idtrg"},
               error |-> {"flashOk", "crtld", "error"}],
   enfba  |-> [regis |-> {"diseng", "apSet"}, fbset |-> {"fbset", "idtrg"},
               error |-> {"flashOk", "error"}],
   fbset  |-> [diseng |-> {"flashOk", "trgfb"}, regis |-> {"diseng", "idtrg"},
               engup |-> {"trgup"}, error |-> {"error"}],
   enidl  |-> [regis |-> {"diseng"}, idset |-> {"idset"},
               error |-> {"flashOk", "error"}],
   idset  |-> [engup |-> {"trgup"}, enfba |-> {"trgfb"},
               error |-> {"flashOk", "error"}],
   error  |-> [error |-> {}]]

\* The rows of nextEffect: the events an effect other than noop is run for.
Triggers ==
  [flash  |-> [rgstr |-> {"flashOk", "crtld", "crtmss"}, trgRunning |-> {"engaged"},
               erro |-> {"trgup", "apSet", "trgfb", "fbset", "idtrg", "idset"}],
   regis  |-> [engag |-> {"crtld"}, rgstr |-> {"crtmss"}, trgRunning |-> {"engaged"},
               trgfb |-> {"trgfb"}, trgid |-> {"idtrg"}, erro |-> {"trgup"}],
   engag  |-> [trgRunning |-> {"engaged"}, erro |-> {"crtmss"}],
   runn   |-> [disen |-> {"flashOk", "trgup", "apSet"}, trgRunning |-> {"engaged"},
               trgfb |-> {"trgfb"}, trgid |-> {"idtrg"}, erro |-> {"crtmss"}],
   diseng |-> [rgstr |-> {"diseng"}, erro |-> {"crtmss"}],
   engup  |-> [updat |-> {"diseng"}, erro |-> {"crtmss"}],
   updat  |-> [erro |-> {"crtmss"}],
   engap  |-> [apeng |-> {"diseng"}, erro |-> {"crtmss"}],
   apSet  |-> [apdng |-> {"apSet", "trgfb", "idtrg", "idset"}, erro |-> {"crtmss"}],
   enfba  |-> [fbSet |-> {"fbset", "idset"},
               erro |-> {"flashOk", "crtld", "crtmss", "engaged", "error"}],
   fbset  |-> [disen |-> {"flashOk", "trgup", "apSet", "idtrg"}, fbdis |-> {"trgfb"},
               erro |-> {"crtld", "crtmss", "engaged", "diseng", "error"}],
   enidl  |-> [fbSet |-> {"fbset"}, idset |-> {"idset"},
               erro |-> {"flashOk", "crtld", "crtmss", "engaged", "error"}],
   idset  |-> [disen |-> {"trgup", "apSet"}, trgfb |-> {"trgfb"}, iddis |-> {"idtrg"},
               erro |-> {"flashOk", "crtld", "crtmss", "engaged", "diseng", "error"}],
   error  |-> [erro |-> MEvents \ {"cnnctd", "cnter", "vldsync", "vlder"}]]

\* The column of row that holds event, or else default.
Column(row, event, default) ==
  IF \E c \in DOMAIN row : event \in row[c]
    THEN CHOOSE c \in DOMAIN row : event \in row[c]
    ELSE default

nextState(state, event)  == Column(Exits[state], event, state)
nextEffect(state, event) == Column(Triggers[state], event, "noop")

=============================================================================
