----------------------------- MODULE V5Endpoints -----------------------------
(***************************************************************************)
(* The functions of the V5 services: orders, positions, executions,        *)
(* market data, account, asset and user.                                   *)
(***************************************************************************)
EXTENDS EndpointKinds

OrderIds == {"orderId", "orderLinkId"}

------------------------------------------------------------------------------
(* v5_order_service.go *)

CreateOrder == ByCategory(PostV5("/v5/order/create"))

AmendOrder ==
    [NamedOrder(ByCategory(PostV5("/v5/order/amend")), OrderIds)
        EXCEPT !.only = {OnlyIn({"option"}, "orderIv")}]

\* It sends whether the order is named or not.
CancelOrderBug == OneOrder(ByCategory(PostV5("/v5/order/cancel")), OrderIds)

CancelOrder == NamedOrder(ByCategory(PostV5("/v5/order/cancel")), OrderIds)

GetOpenOrders == InCategories(GetV5("/v5/order/realtime"), CategoryArguments \ {""})

GetHistoryOrders == InCategories(GetV5("/v5/order/history"), CategoryArguments \ {""})

CancelAllOrders ==
    [ByCategory(PostV5("/v5/order/cancel-all")) EXCEPT
        !.needs = {AnyOfIn(Derivatives, {"symbol", "baseCoin", "settleCoin"})},
        !.only = {OnlyIn({"spot"}, "orderFilter")}]

------------------------------------------------------------------------------
(* v5_position_service.go *)

GetPositionInfo == ByCategory(GetV5("/v5/position/list"))

SetLeverage ==
    [InCategories(PostV5("/v5/position/set-leverage"), CategoryArguments \ {""})
        EXCEPT !.needs = AllOf({"symbol", "buyLeverage", "sellLeverage"})]

SetTradingStop ==
    [InCategories(PostV5("/v5/position/trading-stop"), Derivatives)
        EXCEPT !.needs = {AnyOf({"takeProfit", "stopLoss", "tpLimitPrice", "slLimitPrice"})}]

SetTpSlMode == InCategories(PostV5("/v5/position/set-tpsl-mode"), Derivatives)

SwitchPositionMode ==
    [ByCategory(PostV5("/v5/position/switch-mode"))
        EXCEPT !.needs = {AnyOf({"symbol", "coin"})}]

GetClosedPnL == ByCategory(GetV5("/v5/position/closed-pnl"))

SwitchPositionMarginMode ==
    [InCategories(PostV5("/v5/position/switch-isolated"), Derivatives)
        EXCEPT !.needs = AllOf({"symbol", "buyLeverage", "sellLeverage"})]

SetRiskLimit == ByCategory(PostV5("/v5/position/set-risk-limit"))

------------------------------------------------------------------------------
(* v5_execution_service.go *)

GetExecutionList == ByCategory(GetV5("/v5/execution/list"))

------------------------------------------------------------------------------
(* v5_market_service.go *)

GetKline == AssertedRows(ByCategory(Public("/v5/market/kline")))

GetMarkPriceKline ==
    AssertedRows(InCategories(Public("/v5/market/mark-price-kline"), Derivatives))

GetIndexPriceKline ==
    AssertedRows(InCategories(Public("/v5/market/index-price-kline"), Derivatives))

GetPremiumIndexPriceKline ==
    AssertedRows(InCategories(Public("/v5/market/premium-index-price-kline"), {"linear"}))

GetInstrumentsInfo == TypedByCategory(ByCategory(Public("/v5/market/instruments-info")))

GetOrderbook == TypedRows(ByCategory(Public("/v5/market/orderbook")))

GetTickers ==
    [TypedByCategory(ByCategory(Public("/v5/market/tickers"))) EXCEPT
        !.needs = {AnyOfIn({"option"}, {"symbol", "baseCoin"})},
        !.only = {OnlyIn({"option"}, "baseCoin"), OnlyIn({"option"}, "expDate")}]

GetFundingRateHistory == InCategories(Public("/v5/market/funding/history"), Derivatives)

GetPublicTradingHistory ==
    [ByCategory(Public("/v5/market/recent-trade"))
        EXCEPT !.only = {OnlyIn({"option"}, "baseCoin")}]

GetOpenInterest == InCategories(Public("/v5/market/open-interest"), Derivatives)

GetHistoricalVolatility ==
    InCategories(Public("/v5/market/historical-volatility"), {"option"})

GetInsurance == Public("/v5/market/insurance")

GetRiskLimit == InCategories(Public("/v5/market/risk-limit"), Derivatives)

------------------------------------------------------------------------------
(* v5_account_service.go *)

\* Its result is taken apart by type assertions.
GetWalletBalanceBug ==
    AssertedRows([GetV5("/v5/account/wallet-balance") EXCEPT
        !.needs = {AnyOf({"accountType"})}])

\* Its account type must be unified, contract or spot.
GetWalletBalance ==
    [GetV5("/v5/account/wallet-balance") EXCEPT !.needs = {AnyOf({"accountType"})}]

SetCollateralCoin == PostV5("/v5/account/set-collateral-switch")
BatchSetCollateralCoin == PostV5("/v5/account/set-collateral-switch-batch")
GetCollateralInfo == GetV5("/v5/account/collateral-info")
GetAccountInfo == GetV5("/v5/account/info")
GetTransactionLog == ByCategory(GetV5("/v5/account/transaction-log"))
GetFeeRate == ByCategory(GetV5("/v5/account/fee-rate"))

------------------------------------------------------------------------------
(* v5_asset_service.go *)

TransferChecks == AllOf({"transferId is a UUID", "amount is positive", "coin and accounts"})

CreateInternalTransfer ==
    [PostV5("/v5/asset/transfer/inter-transfer")
        EXCEPT !.needs = TransferChecks \cup {AnyOf({"accounts differ"})}]

GetInternalTransferRecords == GetV5("/v5/asset/transfer/query-inter-transfer-list")

CreateUniversalTransfer ==
    [PostV5("/v5/asset/transfer/universal-transfer") EXCEPT !.needs = TransferChecks]

GetUniversalTransferRecords == GetV5("/v5/asset/transfer/query-universal-transfer-list")
GetDepositRecords == GetV5("/v5/asset/deposit/query-record")
GetSubDepositRecords == GetV5("/v5/asset/deposit/query-sub-member-record")
GetInternalDepositRecords == GetV5("/v5/asset/deposit/query-internal-record")
GetMasterDepositAddress == GetV5("/v5/asset/deposit/query-address")
GetWithdrawalRecords == GetV5("/v5/asset/withdraw/query-record")
GetCoinInfo == GetV5("/v5/asset/coin/query-info")
GetAllCoinsBalance == GetV5("/v5/asset/transfer/query-account-coins-balance")
Withdraw == PostV5("/v5/asset/withdraw/create")

------------------------------------------------------------------------------
(* v5_user_service.go *)

CreateSubUID == PostV5("/v5/user/create-sub-member")
GetSubUIDList == GetV5("/v5/user/query-sub-members")
CreateSubUIDAPIKey == PostV5("/v5/user/create-sub-api")
GetAPIKey == GetV5("/v5/user/query-api")

------------------------------------------------------------------------------
\* The V5 services, by the interfaces of v5_client_service.go.
OrderService ==
    {CreateOrder, AmendOrder, CancelOrder, GetOpenOrders, GetHistoryOrders, CancelAllOrders}

PositionService ==
    {GetPositionInfo, SetLeverage, SetTradingStop, SetTpSlMode, SwitchPositionMode,
     GetClosedPnL, SwitchPositionMarginMode, SetRiskLimit}

MarketService ==
    {GetKline, GetMarkPriceKline, GetIndexPriceKline, GetPremiumIndexPriceKline,
     GetInstrumentsInfo, GetOrderbook, GetTickers, GetFundingRateHistory,
     GetPublicTradingHistory, GetOpenInterest, GetHistoricalVolatility, GetInsurance,
     GetRiskLimit}

AccountService ==
    {GetWalletBalance, SetCollateralCoin, BatchSetCollateralCoin, GetCollateralInfo,
     GetAccountInfo, GetTransactionLog, GetFeeRate}

AssetService ==
    {CreateInternalTransfer, GetInternalTransferRecords, CreateUniversalTransfer,
     GetUniversalTransferRecords, GetDepositRecords, GetSubDepositRecords,
     GetInternalDepositRecords, GetMasterDepositAddress, GetWithdrawalRecords,
     GetCoinInfo, GetAllCoinsBalance, Withdraw}

UserService == {CreateSubUID, GetSubUIDList, CreateSubUIDAPIKey, GetAPIKey}

V5Functions ==
    Through("v5", OrderService \cup PositionService \cup {GetExecutionList}
                    \cup MarketService \cup AccountService \cup AssetService
                    \cup UserService)
=============================================================================
