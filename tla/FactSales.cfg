SPECIFICATION Spec
CONSTANTS
    Lines <- MCLines
    Shippings = {0, 3, 10}
    Discounts = {0, 1, 5, 9}
    MaxLines = 3
    NoOrder = noOrder
    NoFact = noFact
CHECK_DEADLOCK FALSE
INVARIANTS TypeOK SharesAddUp ShippingIsProportional BearableOrdersPass
