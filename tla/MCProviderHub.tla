----------------------------- MODULE MCProviderHub ----------------------------
(* The provider's runtime, at first disabled without a credential, or       *)
(* enabled with one; the server rejects the first key and accepts the       *)
(* second.  One symbol names an equity and an ETF.                          *)
EXTENDS ProviderHub

CONSTANTS live, key1, key2, SPY

Trades    == [class |-> "equity", sym |-> SPY, kind |-> "trade"]
EtfTrades == [class |-> "etf", sym |-> SPY, kind |-> "trade"]
FiveMin   == [class |-> "equity", sym |-> SPY, kind |-> "bar5m"]

AskedFor == {Trades, EtfTrades, FiveMin}
LetIn    == {<<live, key2>>}
Starts   == {<<live, key1>>, <<live, key2>>, <<None, None>>}
=============================================================================
