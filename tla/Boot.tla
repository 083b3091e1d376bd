-------------------------------- MODULE Boot --------------------------------
(***************************************************************************)
(* main: the calls that start the other parts, in their order, and the     *)
(* work queue with its three items.  Two of the parts enable USB: the      *)
(* loopback in main's own thread, and the shell in a thread of its own.    *)
(* The parts that have a module are only started here; the message queue   *)
(* (AppQueue) runs along, because messages may be sent before its thread   *)
(* is started.                                                             *)
(***************************************************************************)
EXTENDS Integers, Sequences, SequencesExt

CONSTANTS MSG_BODY_SIZE, QUEUE_LEN, MaxMessages

ASSUME SizesAssumption ==
  MSG_BODY_SIZE \in Nat \ {0} /\ QUEUE_LEN \in Nat \ {0} /\ MaxMessages \in Nat

VARIABLES
  main,       \* calls main has made
  loopback,   \* "none", "failed" or "polling", as main_cdc_acm left it
  shell,      \* control point of thread_shell_module, or "none"
  usb,        \* USB is enabled
  dtr,        \* DTR of the shell's port
  parts,      \* the other parts that were started
  my_work_q,  \* work items submitted and not taken yet
  worker,     \* the work queue's thread: "none", "idle" or "busy"
  ran,        \* items whose handler was called, in order
  \* What the hardware does, fixed at the start:
  ready,      \* the CDC ACM devices that are ready
  usbWorks    \* USB can be enabled

VARIABLES thread, app_msgq, rx_buf, offered, printed

appVars == <<thread, app_msgq, rx_buf, offered, printed>>
workVars == <<my_work_q, worker, ran>>
bootVars == <<main, loopback, shell, usb, dtr, parts, workVars, ready, usbWorks>>
vars == <<bootVars, appVars>>

App == INSTANCE AppQueue WITH started <- "main_app" \in parts

Init ==
  /\ main = 0
  /\ loopback = "none" /\ shell = "none"
  /\ usb = FALSE /\ dtr = FALSE
  /\ parts = {}
  /\ my_work_q = <<>> /\ worker = "none" /\ ran = <<>>
  /\ ready \in SUBSET {"loopback", "shell"}
  /\ usbWorks \in BOOLEAN
  /\ App!Init

-----------------------------------------------------------------------------
(* main.                                                                   *)

Others == <<"main_my_uart_peripheral", "main_my_uart_peripheral_b", "main_mcp9808",
            "main_app", "main_dhcpv4_client", "main_http_get">>

Items == {"w0", "w1", "w2"}   \* my_work_item
Work == <<"init", "start", "items", "w0", "w1", "w2">>

Calls_ShellFirst == <<"main_shell_module", "main_cdc_acm">> \o Others \o Work
Calls_SubmitEarly ==
  <<"main_cdc_acm", "main_shell_module">> \o Others \o <<"w0", "init", "start", "items", "w1", "w2">>
Calls == <<"main_cdc_acm", "main_shell_module">> \o Others \o Work

Does(call) == main < Len(Calls) /\ Calls[main + 1] = call /\ main' = main + 1

\* What usb_enable returns: 0, or an error when USB is broken; and when USB is
\* enabled already, that is an error in some versions of the stack.
usb_enable ==
  IF ~usbWorks THEN {"error"} ELSE IF usb THEN {"ok", "error"} ELSE {"ok"}

main_cdc_acm ==
  /\ Does("main_cdc_acm")
  /\ \/ "loopback" \notin ready /\ loopback' = "failed" /\ UNCHANGED usb
     \/ "loopback" \in ready /\ "error" \in usb_enable
        /\ loopback' = "failed" /\ UNCHANGED usb
     \/ "loopback" \in ready /\ "ok" \in usb_enable
        /\ loopback' = "polling" /\ usb' = TRUE
  /\ UNCHANGED <<shell, dtr, parts, workVars, ready, usbWorks, appVars>>

main_shell_module ==
  /\ Does("main_shell_module")
  /\ shell' = "start"
  /\ UNCHANGED <<loopback, usb, dtr, parts, workVars, ready, usbWorks, appVars>>

StartsPart ==
  /\ \E i \in 1..Len(Others) : Does(Others[i]) /\ parts' = parts \cup {Others[i]}
  /\ UNCHANGED <<loopback, shell, usb, dtr, workVars, ready, usbWorks, appVars>>

k_work_queue_init ==
  /\ Does("init")
  /\ my_work_q' = <<>>
  /\ UNCHANGED <<loopback, shell, usb, dtr, parts, worker, ran, ready, usbWorks, appVars>>

k_work_queue_start ==
  /\ Does("start")
  /\ worker' = "idle"
  /\ UNCHANGED <<loopback, shell, usb, dtr, parts, my_work_q, ran, ready, usbWorks, appVars>>

k_work_init ==
  /\ Does("items")
  /\ UNCHANGED <<loopback, shell, usb, dtr, parts, workVars, ready, usbWorks, appVars>>

k_work_submit_to_queue ==
  /\ \E i \in Items : Does(i) /\ my_work_q' = Append(my_work_q, i)
  /\ UNCHANGED <<loopback, shell, usb, dtr, parts, worker, ran, ready, usbWorks, appVars>>

Main ==
  \/ main_cdc_acm \/ main_shell_module \/ StartsPart
  \/ k_work_queue_init \/ k_work_queue_start \/ k_work_init \/ k_work_submit_to_queue

-----------------------------------------------------------------------------
(* The shell's thread, and the work queue's.                               *)

thread_shell_module ==
  /\ \/ /\ shell = "start"
        /\ \/ "shell" \notin ready /\ shell' = "ended" /\ UNCHANGED usb
           \/ "shell" \in ready /\ "error" \in usb_enable
              /\ shell' = "ended" /\ UNCHANGED usb
           \/ "shell" \in ready /\ "ok" \in usb_enable
              /\ shell' = "wait" /\ usb' = TRUE
     \/ shell = "wait" /\ dtr /\ shell' = "ended" /\ UNCHANGED usb
  /\ UNCHANGED <<main, loopback, dtr, parts, workVars, ready, usbWorks, appVars>>

HostOpensPort ==
  /\ usb /\ ~dtr
  /\ dtr' = TRUE
  /\ UNCHANGED <<main, loopback, shell, usb, parts, workVars, ready, usbWorks, appVars>>

\* work_handler prints and sleeps; the next item waits for it.
work_handler ==
  /\ \/ /\ worker = "idle" /\ my_work_q # <<>>
        /\ worker' = "busy"
        /\ my_work_q' = Tail(my_work_q)
        /\ ran' = Append(ran, Head(my_work_q))
     \/ worker = "busy" /\ worker' = "idle" /\ UNCHANGED <<my_work_q, ran>>
  /\ UNCHANGED <<main, loopback, shell, usb, dtr, parts, ready, usbWorks, appVars>>

AppStep == App!Next /\ UNCHANGED bootVars

Next == Main \/ thread_shell_module \/ HostOpensPort \/ work_handler \/ AppStep

\* Every thread that can run is run.
Spec ==
  /\ Init
  /\ [][Next]_vars
  /\ WF_vars(Main)
  /\ WF_vars(work_handler)
  /\ WF_appVars(App!thread_app)

-----------------------------------------------------------------------------

\* Every variable of main has its type.
TypeOK ==
  /\ main \in 0..14
  /\ loopback \in {"none", "failed", "polling"}
  /\ shell \in {"none", "start", "wait", "ended"}
  /\ usb \in BOOLEAN /\ dtr \in BOOLEAN /\ usbWorks \in BOOLEAN
  /\ parts \subseteq Range(Others)
  /\ my_work_q \in Seq(Items) /\ ran \in Seq(Items)
  /\ worker \in {"none", "idle", "busy"}

\* USB is enabled from two places, and the second one may be told that it is
\* enabled already and gives up: the loopback is never the second, so that it
\* fails for a reason of its own only.
LoopbackNotLockedOut ==
  TypeOK /\ (loopback = "failed" => "loopback" \notin ready \/ ~usbWorks)

\* No work item is forgotten, run twice or run before an older one: those that
\* ran and those that wait are the ones main has submitted so far, in its order,
\* wherever the work queue's thread comes in between.
WorkInOrder ==
  LET work == ran \o my_work_q
  IN /\ IsPrefix(work, <<"w0", "w1", "w2">>)
     /\ ToSet(work) = Items \cap {Calls[n] : n \in 1..main}

\* main gets to its end whatever fails on the way, and the three work items run
\* in the order of their submission.
EveryItemRuns == <>[](ran = <<"w0", "w1", "w2">>)

\* Printed texts are the messages' own (see AppQueue).
AppFaithful == App!AppFaithful

\* The message queue is a lossy FIFO (see AppQueue).
AppFifoSpec == App!AppFifoSpec

\* A queued message is printed, also one sent before main_app (see AppQueue).
EventuallyPrinted == App!EventuallyPrinted
=============================================================================
