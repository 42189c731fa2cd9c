-------------------------------- MODULE MCBot --------------------------------
(* Three prices, so that neither of two small moves in a row is a signal   *)
(* although together they are more than 0.1.                               *)
EXTENDS BotProperties, TLC

MCPrices == UNION {{price - 1, price + 1} : price \in BasePrices}
MCQuotes == {<<price - 1, price + 1>> : price \in BasePrices} \cup {<<0, 0>>}
=============================================================================
