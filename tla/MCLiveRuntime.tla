------------------------------ MODULE MCLiveRuntime ------------------------------
(* LiveRuntime with three tickers and four kinds of packets.                    *)
EXTENDS LiveRuntime

Market == {"market_cap", "share_price"}

\* Everything; no market; a market in another currency and little else; and a
\* prior revenue of zero.
PacketSet ==
  {[facts |-> Facts, dark |-> {}, market |-> "ok"],
   [facts |-> Facts \ Market, dark |-> {}, market |-> "failed"],
   [facts |-> {"revenue"}, dark |-> {}, market |-> "ok"],
   [facts |-> Facts, dark |-> {"revenue_growth"}, market |-> "ok"]}
================================================================================
