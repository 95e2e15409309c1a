----------------------------- MODULE MCProcess -----------------------------
(***************************************************************************)
(* Files that users leave: an empty, a bad and two good secrets, a port    *)
(* that is no number and one that is none, texts that do not parse, and    *)
(* logs whose number grows and shrinks between the runs.                   *)
(***************************************************************************)
EXTENDS Process

Setting(key, text) == [key |-> key, text |-> text]
Num(n) == Text("num", n)

Logging(files) ==
  << Setting("secret", Text("hex", 100)), Setting("log_file", Word("tgws.log")),
     Setting("log_max_size", Num(2)), Setting("log_max_files", Num(files)) >>

MCFiles ==
  { << Setting("secret", Empty), Setting("dc_ip", Empty) >>,
    << Setting("secret", Text("hex", 100)), Setting("port", Num(0)) >>,
    << Setting("secret", Text("hex", 100)), Setting("port", Word("1443a")),
       Setting("dc_ip", Word("2=a")), Setting("secrets", Word("x")),
       Setting("secret", Text("hex", 101)), Setting("secret", Word("zz")),
       Setting("verbose", Word("off")) >>,
    Logging(1), Logging(3) }

MCEmptySecret == { << Setting("secret", Empty) >> }
=============================================================================
