------------------------------ MODULE MCInstall ------------------------------
\* Each workload puts one concern of an install in front.
EXTENDS Install, TLC

Binary(stamp, second, runs) == [stamp |-> stamp, second |-> second, runs |-> runs]
Old     == Binary(1, 1, TRUE)
New     == Binary(2, 2, TRUE)
Rebuilt == Binary(3, 2, TRUE)   \* in the same second as New
Torn    == Binary(4, 4, FALSE)  \* overwritten in place, half written
MCBinaries == {Old, New, Rebuilt, Torn}

Still == [settled |-> TRUE, loads |-> TRUE, edits |-> << >>, time |-> 0, crashes |-> 0, timeouts |-> 0,
          signals |-> 0, starts |-> [serve |-> 0, bridge |-> 0], commands |-> {},
          release |-> Absent, loopback |-> TRUE, require |-> FALSE]
Unused == [Still EXCEPT !.settled = FALSE]
Quiet == [servers |-> {"github", "linear"}, requests |-> 0, deaths |-> 0, expiries |-> 0, logins |-> 0, strays |-> 0,
          logouts |-> 0]
Of(gateways) == [gateway |-> gateways, oauth |-> Quiet]
With(logins) == [gateway |-> Unused, oauth |-> logins]

Upgrading == Of([Still EXCEPT !.edits = <<New, Torn, New, Rebuilt>>, !.time = 3, !.timeouts = 1, !.crashes = 1])
Reverting == Of([Still EXCEPT !.edits = <<New, Old, Absent, New>>, !.time = 2, !.signals = 1])
Rivals    == Of([Still EXCEPT !.edits = <<New, Torn, New>>, !.time = 1, !.signals = 1,
                              !.starts = [serve |-> 1, bridge |-> 0]])
\* somebody else upgrades further meanwhile, or the release does not run
Updating  == Of([Still EXCEPT !.edits = <<Rebuilt>>, !.time = 3, !.crashes = 1, !.timeouts = 1,
                              !.release = New, !.commands = {"self-update"}])
Unfit     == Of([Updating.gateway EXCEPT !.release = Torn, !.crashes = 0])
Managing  == Of([Unused EXCEPT !.edits = <<New>>, !.commands = {"install", "stop", "start", "uninstall"}])
Reaching  == Of([Unused EXCEPT !.starts = [serve |-> 1, bridge |-> 1], !.commands = {"install"}, !.crashes = 1])
Racing    == Of([Unused EXCEPT !.starts = [serve |-> 0, bridge |-> 2], !.edits = <<New>>, !.commands = {"install"}])
Broken    == Of([Unused EXCEPT !.loads = FALSE, !.starts = [serve |-> 1, bridge |-> 2]])
Minting   == Of([Unused EXCEPT !.starts = [serve |-> 1, bridge |-> 0], !.signals = 1,
                               !.commands = {"install", "rotate"}, !.loopback = FALSE, !.require = TRUE])
Refreshing == With([Quiet EXCEPT !.servers = {"github"}, !.requests = 3, !.expiries = 2, !.logins = 2,
                                 !.logouts = 1, !.deaths = 1])
LoggingIn  == With([Quiet EXCEPT !.logins = 2, !.strays = 2, !.logouts = 1, !.expiries = 1, !.requests = 1])
MCWorkloads == {Upgrading, Reverting, Rivals, Updating, Unfit, Managing, Reaching, Racing, Broken,
                Minting, Refreshing, LoggingIn}
=============================================================================
