CONSTANTS
    Minted <- MCMinted
    TradeSizes = {0, 1, 2, 3}
SPECIFICATION Spec
INVARIANTS
    ReservesCovered
PROPERTIES
    ProductNeverFalls
    AdapterPaysOnlyItsSwap
