---------------------------- MODULE HttpStartup ----------------------------
(***************************************************************************)
(* http-server/: main, from the command line to a listening socket.  An    *)
(* argument is its number of characters and its value when all of them are *)
(* digits; the port reaches bind() through htons, which keeps 16 bits, and *)
(* bind() takes a port of its own choice when it is given 0.               *)
(***************************************************************************)
EXTENDS Integers

CONSTANTS
  Args,        (* arguments, as [length : Nat, value : Nat \cup {NotDigits}]*)
  ArgcMax,     (* bound of argc                                             *)
  NotDigits,   (* the value of an argument that is no number                *)
  Ephemeral    (* the ports the kernel chooses from for an address with 0   *)

ASSUME StartupAssumption ==
  /\ Args \subseteq [length : Nat, value : Nat \cup {NotDigits}]
  /\ NotDigits \notin Nat /\ ArgcMax \in Nat
  /\ \A port \in Ephemeral : port \in Nat /\ 0 < port /\ port < 65536

VARIABLES
  stage,       (* the step of main, init or listen that comes next          *)
  argc,        (* argc                                                      *)
  arg,         (* argv[1]                                                   *)
  sin_port,    (* the port in the address given to bind(), in host order    *)
  bound,       (* the port the socket is bound to                           *)
  cause        (* what the message of fatal() blames                        *)

startupVars == <<stage, argc, arg, sin_port, bound, cause>>

Unset == -1

StartupInit ==
  /\ stage = "args"
  /\ argc \in 1..ArgcMax /\ arg \in Args
  /\ sin_port = Unset /\ bound = Unset /\ cause = "none"

Fatal(why) ==
  stage' = "fatal" /\ cause' = why /\ UNCHANGED <<argc, arg, sin_port, bound>>

(* validateArgs: one argument, no more and no less.                         *)
ValidateArgs ==
  /\ stage = "args"
  /\ \/ argc = 2 /\ stage' = "port" /\ UNCHANGED <<argc, arg, sin_port, bound, cause>>
     \/ argc # 2 /\ Fatal("usage")

(* parsePort: one to five digits, then the range.                           *)
WellFormed == arg.length \in 1..5 /\ arg.value # NotDigits

InRange_Dropped == TRUE

InRange == arg.value >= 0 /\ arg.value < 65535

ParsePort ==
  /\ stage = "port"
  /\ \/ ~WellFormed /\ Fatal("format")
     \/ WellFormed /\ ~InRange /\ Fatal("range")
     \/ WellFormed /\ InRange /\ stage' = "sigaction"
        /\ UNCHANGED <<argc, arg, sin_port, bound, cause>>

(* setupSignalAction, createSocket, configureSocketOptions.                 *)
Prepare ==
  /\ \/ stage = "sigaction" /\ stage' = "socket"
     \/ stage = "socket" /\ stage' = "setsockopt"
     \/ stage = "setsockopt" /\ stage' = "address"
  /\ UNCHANGED <<argc, arg, sin_port, bound, cause>>

(* bindSocket.                                                              *)
FillAddress ==
  /\ stage = "address" /\ stage' = "bind"
  /\ sin_port' = arg.value % 65536
  /\ UNCHANGED <<argc, arg, bound, cause>>

(* Port 0 asks the kernel for any free port.                                *)
Bind ==
  /\ stage = "bind" /\ stage' = "listen"
  /\ \/ sin_port # 0 /\ bound' = sin_port
     \/ sin_port = 0 /\ bound' \in Ephemeral
  /\ UNCHANGED <<argc, arg, sin_port, cause>>

Listen ==
  /\ stage = "listen" /\ stage' = "serve"
  /\ UNCHANGED <<argc, arg, sin_port, bound, cause>>

(* Any of these calls may fail: throwErrno, and main's handler.             *)
CallFails ==
  /\ stage \in {"sigaction", "socket", "setsockopt", "bind", "listen"}
  /\ Fatal("server")

StartupNext == ValidateArgs \/ ParsePort \/ Prepare \/ FillAddress \/ Bind \/ Listen \/ CallFails

StartupSpec == StartupInit /\ [][StartupNext]_startupVars
-----------------------------------------------------------------------------
(* What passes the checks on the argument survives the narrowing to 16      *)
(* bits: the server listens on the port it was given, except that 0 passes  *)
(* too and makes it listen on a port of the kernel's choice (its log line   *)
(* then says 0, HTTPServer.cpp:115).                                        *)
ListensOnGivenPort ==
  stage = "serve" =>
    /\ argc = 2 /\ arg.value \in Nat /\ arg.value < 65535
    /\ bound \in IF arg.value = 0 THEN Ephemeral ELSE {arg.value}
=============================================================================
