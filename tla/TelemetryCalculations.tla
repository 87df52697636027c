-------------------------- MODULE TelemetryCalculations --------------------------
(***************************************************************************)
(* The numbers of the swarm telemetry, as the student's browser            *)
(* (apps/web/src/p2p/telemetry/telemetry.calculations.ts) and the server   *)
(* (apps/server/src/signaling/telemetry.manager.ts) compute them.          *)
(* A percentage with one decimal is counted in tenths of a percent.        *)
(***************************************************************************)
EXTENDS Naturals

\* Math.round(a / b): halves go up.
Rounded(a, b) == (2 * a + b) \div (2 * b)

\* Broken P2PPercentage: peers against server, not peers against all.
P2PAgainstOrigin(bytesP2P, bytesOrigin) ==
    IF bytesOrigin = 0 THEN 0 ELSE Rounded(1000 * bytesP2P, bytesOrigin)

\* calculateP2PPercentage; swarmEfficiencyPercent is the same of the sums.
P2PPercentage(bytesP2P, bytesOrigin) ==
    IF bytesP2P + bytesOrigin = 0 THEN 0 ELSE Rounded(1000 * bytesP2P, bytesP2P + bytesOrigin)

\* Every data channel is reported by both of its ends.
ChannelsOf(sumDataChannels) == Rounded(sumDataChannels, 2)
=============================================================================
