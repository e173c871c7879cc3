----------------------------- MODULE MCWsRouter -----------------------------
(***************************************************************************)
(* Small instances of WsRouter.                                            *)
(***************************************************************************)
EXTENDS WsRouter

AllServices ==
    {"v5_public", "v5_private", "v5_trade", "spot_public_v1", "spot_public_v2",
     "spot_private"}

\* Two channels that differ in each part of a topic, and one of every stream.
MCChannels ==
    {Channel(OrderBook, <<"1", "BTC">>), Channel(OrderBook, <<"50", "BTC">>),
     Channel(Kline, <<"1", "BTC">>),
     Channel(Ticker, <<"BTC">>), Channel(Trade, <<"BTC">>),
     Channel(Liquidation, <<"BTC">>), Channel(AllLiquidation, <<"BTC">>),
     Channel(Order, <<>>), Channel(Position, <<>>),
     Channel(Execution, <<>>), Channel(Wallet, <<>>),
     Channel(SpotTradeV1, <<"BTC">>), Channel(SpotTradeV1, <<"ETH">>),
     Channel(SpotTradeV2, <<"BTC">>), Channel(SpotTradeV2, <<"ETH">>),
     Channel(OutboundAccountInfo, <<>>)}
=============================================================================
