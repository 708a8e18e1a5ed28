----------------------------- MODULE StatusReport -----------------------------
(***************************************************************************)
(* The real-time status report (report.c) and the flags that add elements  *)
(* to it (system_add_rt_report): a change sets its flag, the next report   *)
(* shows the elements flagged and clears all flags.  Work offset and       *)
(* overrides are shown every so many reports as well; the work offset not  *)
(* together with overrides, nor while a command waits for the planner.     *)
(* Reports are asked for by a task, or by characters.  The client keeps    *)
(* what it was told.                                                       *)
(*                                                                         *)
(* The firmware reports machine positions with all elements enabled.  An   *)
(* element is shown with its value at the start of a report, in which the  *)
(* step interrupt and the receiver come in between; its values alternate.  *)
(***************************************************************************)
EXTENDS Naturals, Sequences

CONSTANTS OvBusy, OvIdle,    \* REPORT_OVERRIDE_REFRESH_BUSY_COUNT, _IDLE_COUNT
          WcoBusy, WcoIdle,  \* REPORT_WCO_REFRESH_BUSY_COUNT, _IDLE_COUNT
          MaxMoves,          \* motions in the planner, a bound
          MaxChanges,        \* changes and characters, a bound
          Menus,             \* kinds of changes and characters; a behaviour uses one
          ReportWindows      \* calls a client loses track by: subset of AllReportWindows

\* A request of everything while the tool offset is to be reported, modes that
\* change again before they are reported.
AllReportWindows == {"all", "often"}

VARIABLES r,       \* the firmware
          seen,    \* what the client knows
          changes  \* changes and characters so far

reportVars == <<r, seen, changes>>

Elements == {"ov", "tool", "coolant", "wcs"}
Flags == Elements \cup {"wco", "tlo", "force", "all"}
ReportAll == Flags \ {"force", "tlo"}

\* Modes have two parts, the feed rate and everything else.
ReportInit ==
    /\ \E sync \in BOOLEAN :
       \E menu \in Menus :
          r = [menu |-> menu,
               sync |-> sync,        \* settings.status_report.sync_on_wco_change
               auto |-> TRUE,        \* sys.flags.auto_reporting
               flags |-> ReportAll, req |-> {"status"}, ovCount |-> 0, wcoCount |-> 0,
               reporting |-> FALSE, delayed |-> FALSE,
               at |-> "main",        \* or what a command waits for
               val |-> [e \in Elements |-> 0], tlo |-> 0, g92 |-> 0,
               modes |-> <<0, 0>>, cached |-> <<0, 0>>,
               moves |-> << >>, exec |-> << >>]
    /\ seen = [val |-> [e \in Elements |-> 2], wco |-> << >>, tlo |-> 0, modes |-> <<0, 0>>]
    /\ changes = 0

Flip(v) == 1 - v
Add(x, flags) == [x EXCEPT !.flags = @ \cup flags]

\* gc_get_offset: a motion is reported with the offset it was planned with.
Offset(x) ==
    LET block == IF x.sync \/ x.exec = << >> THEN x.g92 ELSE x.exec[1]
    IN <<x.val["wcs"], x.tlo, block>>

-----------------------------------------------------------------------------
(* What changes *)

Change(kind, x) == kind \in r.menu /\ changes < MaxChanges /\ changes' = changes + 1 /\ r' = x /\ UNCHANGED seen

Command(kind, x) == ~r.reporting /\ r.at = "main" /\ Change(kind, x)

\* system_flag_wco_change: flagged after the wait for the planner.
FlagWcoChange(x) == IF x.sync THEN [x EXCEPT !.at = "sync"] ELSE Add(x, {"wco"})

SelectTool == Command("tool", Add([r EXCEPT !.val["tool"] = Flip(@)], {"tool"}))
SelectSystem == Command("system", FlagWcoChange(Add([r EXCEPT !.val["wcs"] = Flip(@)], {"wcs"})))
SetToolOffset == /\ "all" \in r.flags => "all" \in ReportWindows
                 /\ Command("tlo", FlagWcoChange(Add([r EXCEPT !.tlo = Flip(@)], {"tlo"})))
AddOffset == Command("offset", FlagWcoChange([r EXCEPT !.g92 = Flip(@)]))
SetModes == /\ r.cached # r.modes \/ "modes" \in r.req => "often" \in ReportWindows
            /\ \E part \in 1..2 : Command("modes", [r EXCEPT !.modes[part] = Flip(@)])
Move == Len(r.moves) < MaxMoves /\ Command("move", [r EXCEPT !.moves = Append(@, r.g92)])

\* coolant_set_state: switched on, it is flagged after its delay.
Coolant ==
    LET x == [r EXCEPT !.val["coolant"] = Flip(@)]
    IN Command("coolant", IF x.val["coolant"] = 1 THEN [x EXCEPT !.at = "delay"] ELSE Add(x, {"coolant"}))

\* plan_feed_override, by the executive, so in waits as well
Override == ~r.reporting /\ Change("override", Add([r EXCEPT !.val["ov"] = Flip(@)], {"ov"}))

\* Waits end: protocol_buffer_synchronize when the planner is empty, a delay.
WaitEnds ==
    /\ ~r.reporting /\ r.at # "main"
    /\ r.at = "sync" => r.moves = << >> /\ r.exec = << >>
    /\ r' = Add([r EXCEPT !.at = "main"],
                CASE r.at = "sync" -> {"wco"} [] r.at = "delay" -> {"coolant"} [] OTHER -> {})
    /\ UNCHANGED <<seen, changes>>

-----------------------------------------------------------------------------
(* Interrupts *)

\* The next motion is begun, its offset another one than that of the motion before.
StepBlock ==
    /\ r.moves # << >>
    /\ r' = LET new == r.exec # << >> /\ r.exec[1] # Head(r.moves)
            IN Add([r EXCEPT !.exec = <<Head(r.moves)>>, !.moves = Tail(@)], IF new THEN {"wco", "force"} ELSE {})
    /\ UNCHANGED <<seen, changes>>

StepEnd == r.moves = << >> /\ r.exec # << >> /\ r' = [r EXCEPT !.exec = << >>] /\ UNCHANGED <<seen, changes>>

AskAll ==
    /\ "tlo" \in r.flags => "all" \in ReportWindows
    /\ Change("all", [Add(r, ReportAll) EXCEPT !.req = @ \cup {"status"}])
AskStatus == ~r.auto /\ Change("ask", [r EXCEPT !.req = @ \cup {"status"}])
AskModes == Change("modes", [r EXCEPT !.req = @ \cup {"modes"}])
ToggleAuto == Change("ask", [r EXCEPT !.auto = ~@])

\* auto_realtime_report, a task: it or realtime_report_check is always queued.
AutoReport == ~r.reporting /\ r.auto /\ r' = [r EXCEPT !.req = @ \cup {"status"}] /\ UNCHANGED <<seen, changes>>

-----------------------------------------------------------------------------
(* The report *)

Busy == r.exec # << >> \/ r.moves # << >>

\* A counter after a report, which showed its element or not
Counted(count, shown, busy, idle) ==
    LET c == CASE ~shown -> count - 1 [] Busy -> busy - 1 [] OTHER -> idle - 1
    IN IF c > idle - 1 /\ ~Busy THEN idle - 1 ELSE c

\* The parser state is reported on the next pass when it is not what it was.
CacheModes(x) ==
    IF x.cached[1] # x.modes[1] THEN [x EXCEPT !.cached[1] = x.modes[1], !.req = @ \cup {"modes"}]
    ELSE IF x.cached # x.modes THEN [x EXCEPT !.cached[2] = x.modes[2], !.req = @ \cup {"modes"}]
    ELSE x

\* The work offset is shown later: with overrides, or while the planner is waited for.
Delays(ov, wco) == /\ wco /\ "all" \notin r.flags
                   /\ ov \/ (r.at = "sync" /\ "force" \notin r.flags)

\* The accessories are shown with any of them, and with overrides when one is on.
Told(ov) ==
    LET accessories == r.flags \cap {"coolant", "tool"} # {} \/ (ov /\ r.val["coolant"] = 1)
    IN (r.flags \cap {"tool", "wcs"}) \cup (IF ov THEN {"ov"} ELSE {})
       \cup (IF accessories THEN {"coolant"} ELSE {})

ReportStart ==
    /\ ~r.reporting /\ "status" \in r.req
    /\ LET all == "all" \in r.flags
           ov == r.ovCount = 0 \/ "ov" \in r.flags
           wco == r.wcoCount = 0 \/ "wco" \in r.flags
           delays == Delays(ov, wco)
           told == Told(ov)
           x == [r EXCEPT !.reporting = TRUE, !.delayed = delays, !.req = @ \ {"status"},
                          !.ovCount = Counted(@, ov, OvBusy, OvIdle),
                          !.wcoCount = Counted(@, wco, WcoBusy, WcoIdle)]
           y == IF "tlo" \in r.flags THEN [x EXCEPT !.req = @ \cup {"tlo"}] ELSE x
       IN /\ r' = IF all THEN x ELSE CacheModes(y)
          /\ seen' = [seen EXCEPT !.val = [e \in Elements |-> IF e \in told THEN r.val[e] ELSE @[e]],
                                  !.wco = IF wco /\ ~delays THEN Offset(r) ELSE @]
    /\ UNCHANGED changes

\* Mutant: a delayed work offset is not flagged again.
ReportEndForgets == /\ r.reporting /\ r' = [r EXCEPT !.reporting = FALSE, !.delayed = FALSE, !.flags = {}]
                    /\ UNCHANGED <<seen, changes>>

\* All flags are cleared, also those an interrupt set meanwhile.
ReportEnd ==
    /\ r.reporting
    /\ r' = [r EXCEPT !.reporting = FALSE, !.delayed = FALSE, !.flags = IF r.delayed THEN {"wco"} ELSE {}]
    /\ UNCHANGED <<seen, changes>>

\* report_gcode_modes, report_tool_offsets, in the executive
ReportModes == /\ ~r.reporting /\ "modes" \in r.req
               /\ r' = [r EXCEPT !.req = @ \ {"modes"}] /\ seen' = [seen EXCEPT !.modes = r.modes]
               /\ UNCHANGED changes
ReportOffsets == /\ ~r.reporting /\ "tlo" \in r.req
                 /\ r' = [r EXCEPT !.req = @ \ {"tlo"}] /\ seen' = [seen EXCEPT !.tlo = r.tlo]
                 /\ UNCHANGED changes

Changes == \/ SelectTool \/ SelectSystem \/ SetToolOffset \/ AddOffset \/ SetModes
           \/ Move \/ Coolant \/ Override \/ AskAll \/ AskStatus \/ AskModes \/ ToggleAuto
Steps == StepBlock \/ StepEnd
Reports == ReportStart \/ ReportEnd
ReportNext == Changes \/ WaitEnds \/ Steps \/ AutoReport \/ Reports \/ ReportModes \/ ReportOffsets

ReportSpec == ReportInit /\ [][ReportNext]_reportVars

-----------------------------------------------------------------------------
(* What a client may rely on *)

AwaitsDelay(e) == r.at = "delay" /\ e = "coolant"

\* What the client does not know it will be told: its flag is set, by whichever of
\* foreground and executive changed it, its report requested or its change not yet seen
\* by the report (system_add_rt_report and report_realtime_status together).
StaleIsPending ==
    /\ \A e \in Elements : seen.val[e] # r.val[e] => e \in r.flags \/ AwaitsDelay(e)
    /\ seen.tlo # r.tlo => "tlo" \in r.flags \cup r.req
    /\ seen.modes # r.modes => "modes" \in r.req \/ r.cached # r.modes

CaughtUp == r.auto => seen = [val |-> r.val, wco |-> Offset(r), tlo |-> r.tlo, modes |-> r.modes]

\* With automatic reports the client comes to know everything, the work offset
\* included, which interrupts flag in the middle of a report, and changes without a flag
\* when the last motion ends: the two counters do not keep it from being shown.
ClientCatchesUp == <>[]CaughtUp

\* Fairness: the foreground goes on between two reports, which are asked for at
\* intervals; the report task is always queued; motions are executed.
Fairness ==
    /\ SF_reportVars(WaitEnds) /\ SF_reportVars(ReportModes) /\ SF_reportVars(ReportOffsets)
    /\ WF_reportVars(Steps) /\ WF_reportVars(AutoReport) /\ WF_reportVars(Reports)
=============================================================================
