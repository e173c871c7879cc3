--------------------------- MODULE LegacyEndpoints ---------------------------
(***************************************************************************)
(* The functions of the services before V5: server time, spot v1, the      *)
(* three futures services with what they share, and derivatives v3.  The   *)
(* bodies that postJSON sends carry the caller's numbers as JSON numbers.  *)
(***************************************************************************)
EXTENDS EndpointKinds

OrderIds == {"order_id", "order_link_id"}
StopOrderIds == {"stop_order_id", "order_link_id"}
SpotOrderIds == {"orderId", "orderLinkId"}

(* time_service.go *)

GetServerTime == Public("/v3/public/time")

------------------------------------------------------------------------------
(* spot_v1.go *)

SpotSymbols == Public("/spot/v1/symbols")
SpotQuoteDepth == TypedRows(Public("/spot/quote/v1/depth"))
SpotQuoteDepthMerged == TypedRows(Public("/spot/quote/v1/depth/merged"))
SpotQuoteTrades == Public("/spot/quote/v1/trades")
SpotQuoteKline == AssertedRows(Public("/spot/quote/v1/kline"))
SpotQuoteTicker24hr == Public("/spot/quote/v1/ticker/24hr")
SpotQuoteTickerPrice == Public("/spot/quote/v1/ticker/price")
SpotQuoteTickerBookTicker == Public("/spot/quote/v1/ticker/book_ticker")
SpotPostOrder == PostForm("/spot/v1/order")
SpotGetOrder == Get("/spot/v1/order")
SpotDeleteOrder == OneOrder(Delete("/spot/v1/order"), SpotOrderIds)
SpotDeleteOrderFast == OneOrder(Delete("/spot/v1/order/fast"), SpotOrderIds)
SpotOrderBatchCancel == Delete("/spot/order/batch-cancel")
SpotOrderBatchFastCancel == Delete("/spot/order/batch-fast-cancel")

SpotOrderBatchCancelByIDs ==
    [Delete("/spot/order/batch-cancel-by-ids") EXCEPT !.needs = {AnyOf({"at most 100 ids"})}]

SpotOpenOrders == Get("/spot/v1/open-orders")
SpotGetWalletBalance == Get("/spot/v1/account")

------------------------------------------------------------------------------
(* future_common.go *)

APIKeyInfo == Get("/v2/private/account/api-key")
Balance == Get("/v2/private/wallet/balance")
OrderBook == Public("/v2/public/orderBook/L2")
ListKline == Public("/v2/public/kline/list")
Tickers == Public("/v2/public/tickers")
TradingRecords == Public("/v2/public/trading-records")
Symbols == Public("/v2/public/symbols")
MarkPriceKline == Public("/v2/public/mark-price-kline")
IndexPriceKline == Public("/v2/public/index-price-kline")
OpenInterest == Public("/v2/public/open-interest")
BigDeal == Public("/v2/public/big-deal")
AccountRatio == Public("/v2/public/account-ratio")

------------------------------------------------------------------------------
(* future_inverse_perpetual.go *)

PremiumIndexKline == Public("/v2/public/premium-index-kline")
CreateOrder == Numeric(Post("/v2/private/order/create"))
ListOrder == Get("/v2/private/order/list")
ListPosition == Get("/v2/private/position/list")
ListPositions == Get("/v2/private/position/list")
TradingStop == Numeric(Post("/v2/private/position/trading-stop"))
CancelOrder == NamedOrder(Post("/v2/private/order/cancel"), OrderIds)
CancelAllOrder == Post("/v2/private/order/cancelAll")
QueryOrder == Get("/v2/private/order")
CreateStopOrder == Numeric(Post("/v2/private/stop-order/create"))
ListStopOrder == Get("/v2/private/stop-order/list")
CancelStopOrder == NamedOrder(Post("/v2/private/stop-order/cancel"), StopOrderIds)
CancelAllStopOrder == Post("/v2/private/stop-order/cancelAll")
QueryStopOrder == Get("/v2/private/stop-order")
SaveLeverage == Numeric(Post("/v2/private/position/leverage/save"))

------------------------------------------------------------------------------
(* future_usdt_perpetual.go *)

ListLinearKline == Public("/public/linear/kline")
CreateLinearOrder == Numeric(Post("/private/linear/order/create"))
ListLinearOrder == Get("/private/linear/order/list")
ListLinearPosition == Get("/private/linear/position/list")
ListLinearPositions == Get("/private/linear/position/list")
CancelLinearOrder == NamedOrder(Post("/private/linear/order/cancel"), OrderIds)
SaveLinearLeverage == Numeric(Post("/private/linear/position/set-leverage"))
LinearTradingStop == Numeric(Post("/private/linear/position/trading-stop"))
LinearExecutionList == Get("/private/linear/trade/execution/list")
LinearCancelAllOrder == Post("/private/linear/order/cancel-all")
ReplaceLinearOrder == Numeric(OneOrder(Post("/private/linear/order/replace"), OrderIds))
QueryLinearOrder == Get("/private/linear/order/search")
CreateLinearStopOrder == Numeric(Post("/private/linear/stop-order/create"))
ListLinearStopOrder == Get("/private/linear/stop-order/list")
CancelLinearStopOrder == NamedOrder(Post("/private/linear/stop-order/cancel"), StopOrderIds)
CancelAllLinearStopOrder == Post("/private/linear/stop-order/cancel-all")
QueryLinearStopOrder == Get("/private/linear/stop-order/search")

------------------------------------------------------------------------------
(* future_inverse_future.go *)

CreateFuturesOrder == Numeric(Post("/futures/private/order/create"))
ListFuturesOrder == Get("/futures/private/order/list")
CancelFuturesOrder == OneOrder(Post("/futures/private/order/cancel"), OrderIds)
CancelAllFuturesOrder == Post("/futures/private/order/cancelAll")
QueryFuturesOrder == Get("/futures/private/order")
CreateFuturesStopOrder == Numeric(Post("/futures/private/stop-order/create"))
ListFuturesStopOrder == Get("/futures/private/stop-order/list")
CancelFuturesStopOrder == OneOrder(Post("/futures/private/stop-order/cancel"), StopOrderIds)
CancelAllFuturesStopOrder == Post("/futures/private/stop-order/cancelAll")
QueryFuturesStopOrder == Get("/futures/private/stop-order")
ListFuturesPositions == Get("/futures/private/position/list")
FuturesTradingStop == Numeric(Post("/futures/private/position/trading-stop"))
FuturesSaveLeverage == Numeric(Post("/futures/private/position/leverage/save"))

------------------------------------------------------------------------------
(* derivative_common.go: the services Contract and UnifiedMargin *)

DerivativesOrderBook ==
    UncheckedRows(ByCategory(Public("/derivatives/v3/public/order-book/L2")))

DerivativesKline ==
    AssertedRows(InCategories(Public("/derivatives/v3/public/kline"), Derivatives))

\* Options are let through to a type that does not fit them.
DerivativesTickersBug ==
    [ByCategory(Public("/derivatives/v3/public/tickers"))
        EXCEPT !.decodes = @ \ {"option"}]

\* The tickers and the instruments of options have result types of their own.
DerivativesTickers ==
    [InCategories(Public("/derivatives/v3/public/tickers"), CategoryArguments \ {"option"})
        EXCEPT !.decodes = @ \ {"option"}]

\* The functions for options take no category and send this one.
ForOptions(f) ==
    [f EXCEPT !.asks = {"option"}, !.accepts = {"option"}, !.decodes = {"option"}]

DerivativesTickersForOption == ForOptions(Public("/derivatives/v3/public/tickers"))

DerivativesInstruments ==
    [InCategories(Public("/derivatives/v3/public/instruments-info"),
                  CategoryArguments \ {"option"}) EXCEPT !.decodes = @ \ {"option"}]

DerivativesInstrumentsForOption ==
    ForOptions(Public("/derivatives/v3/public/instruments-info"))

DerivativesMarkPriceKline ==
    AssertedRows(ByCategory(Public("/derivatives/v3/public/mark-price-kline")))

DerivativesIndexPriceKline ==
    AssertedRows(ByCategory(Public("/derivatives/v3/public/index-price-kline")))

------------------------------------------------------------------------------
SpotV1Service ==
    {SpotSymbols, SpotQuoteDepth, SpotQuoteDepthMerged, SpotQuoteTrades, SpotQuoteKline,
     SpotQuoteTicker24hr, SpotQuoteTickerPrice, SpotQuoteTickerBookTicker, SpotPostOrder,
     SpotGetOrder, SpotDeleteOrder, SpotDeleteOrderFast, SpotOrderBatchCancel,
     SpotOrderBatchFastCancel, SpotOrderBatchCancelByIDs, SpotOpenOrders,
     SpotGetWalletBalance}

FutureCommonService ==
    {APIKeyInfo, Balance, OrderBook, ListKline, Tickers, TradingRecords, Symbols,
     MarkPriceKline, IndexPriceKline, OpenInterest, BigDeal, AccountRatio}

FutureInversePerpetualService ==
    {PremiumIndexKline, CreateOrder, ListOrder, ListPosition, ListPositions, TradingStop,
     CancelOrder, CancelAllOrder, QueryOrder, CreateStopOrder, ListStopOrder,
     CancelStopOrder, CancelAllStopOrder, QueryStopOrder, SaveLeverage}

FutureUSDTPerpetualService ==
    {ListLinearKline, CreateLinearOrder, ListLinearOrder, ListLinearPosition,
     ListLinearPositions, CancelLinearOrder, SaveLinearLeverage, LinearTradingStop,
     LinearExecutionList, LinearCancelAllOrder, ReplaceLinearOrder, QueryLinearOrder,
     CreateLinearStopOrder, ListLinearStopOrder, CancelLinearStopOrder,
     CancelAllLinearStopOrder, QueryLinearStopOrder}

FutureInverseFutureService ==
    {CreateFuturesOrder, ListFuturesOrder, CancelFuturesOrder, CancelAllFuturesOrder,
     QueryFuturesOrder, CreateFuturesStopOrder, ListFuturesStopOrder,
     CancelFuturesStopOrder, CancelAllFuturesStopOrder, QueryFuturesStopOrder,
     ListFuturesPositions, FuturesTradingStop, FuturesSaveLeverage}

DerivativeFunctions ==
    Through("derivative",
        {DerivativesOrderBook, DerivativesKline, DerivativesTickers,
         DerivativesTickersForOption, DerivativesInstruments,
         DerivativesInstrumentsForOption, DerivativesMarkPriceKline,
         DerivativesIndexPriceKline})

BaseFunctions ==
    {GetServerTime} \cup SpotV1Service \cup FutureCommonService
        \cup FutureInversePerpetualService \cup FutureUSDTPerpetualService
        \cup FutureInverseFutureService
=============================================================================
