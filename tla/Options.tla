------------------------------ MODULE Options ------------------------------
(***************************************************************************)
(* internal/app/options.go ParseOptions and main.go parseCommand.  An      *)
(* argument is one of Tokens; a flag and its value written with "=" are    *)
(* the same two tokens, "-r" and "--rate" one.  The range checks tell the  *)
(* Numbers apart; every other token is text to strconv.ParseFloat.         *)
(***************************************************************************)
EXTENDS Naturals, Sequences

Commands == {"doctor", "--version"}
Switches == {"--help", "--qa-console", "--no-tray"}
Valued   == {"--rate", "--start-delay", "--backend"}
Numbers  == {"-1", "0", "1"}
Backends == {"auto", "macos-subprocess", "macos-native", "linux"}
Tokens   == Commands \cup Switches \cup Valued \cup Numbers \cup Backends

(* Between two arguments: the switches seen, the values given, and the     *)
(* flag that takes the next argument, "none" or "error".                   *)
DefaultOptions ==
    [switches |-> {}, rate |-> "1", delay |-> "0", backend |-> "auto", wants |-> "none"]

(* readFloatArg *)
Number(opts, field, token) ==
    IF token \in Numbers THEN [opts EXCEPT ![field] = token, !.wants = "none"]
                         ELSE [opts EXCEPT !.wants = "error"]

(* One argument: an error ends the parse, whatever came before it. *)
Read(opts, token) ==
    CASE opts.wants = "--rate"        -> Number(opts, "rate", token)
      [] opts.wants = "--start-delay" -> Number(opts, "delay", token)
      [] opts.wants = "--backend"     -> [opts EXCEPT !.backend = token, !.wants = "none"]
      [] opts.wants = "error"         -> opts
      [] OTHER ->
            CASE token \in Switches -> [opts EXCEPT !.switches = @ \cup {token}]
              [] token \in Valued   -> [opts EXCEPT !.wants = token]
              [] OTHER              -> [opts EXCEPT !.wants = "error"]

ParseOptions(args) ==
    LET opts[n \in 0..Len(args)] ==
            IF n = 0 THEN DefaultOptions ELSE Read(opts[n - 1], args[n])
    IN  opts[Len(args)]

(* A value is missing, or out of range. *)
Valid(opts) ==
    opts.wants = "none" /\ opts.rate = "1" /\ opts.delay # "-1" /\ opts.backend \in Backends

(* parseCommand *)
ParseCommand(args) ==
    LET isDoctor == args # <<>> /\ Head(args) = "doctor"
        opts == ParseOptions(IF isDoctor THEN Tail(args) ELSE args)
    IN  [opts |-> opts,
         kind |-> IF args # <<>> /\ Head(args) = "--version"
                  THEN IF Len(args) = 1 THEN "version" ELSE "invalid"
                  ELSE IF ~Valid(opts) THEN "invalid"
                  ELSE IF "--help" \in opts.switches THEN "help"
                  ELSE IF isDoctor THEN "doctor" ELSE "run"]

(* backend.go NewBackend, for an option that is valid: what it selects. *)
Select(platform, backend) ==
    CASE backend = "auto" /\ platform = "darwin" -> "macos-native"
      [] backend = "auto" /\ platform = "linux"  -> "linux"
      [] backend = "linux" /\ platform = "linux" -> "linux"
      [] backend \in {"macos-native", "macos-subprocess"} /\ platform = "darwin" -> backend
      [] OTHER -> "unsupported"
=============================================================================
